---- MODULE Spec2Model ----
(***************************************************************************)
(* Model of the strata wiki server: Markdown rendering, request handlers   *)
(* and search.                                                             *)
(*                                                                         *)
(*   Spec        MarkdownService::render_with_toc                          *)
(*               (src/src/services/markdown_service.rs): the line loop of  *)
(*               basic_markdown_to_html, one action per loop iteration,    *)
(*               then generate_toc and extract_title.                      *)
(*   SpecRender  render_markdown_with_toc (src/src/render.rs): the two     *)
(*               passes over the parser's event stream and build_toc_html. *)
(*   SpecFn      single calls of the inline passes, render_table,          *)
(*               split_front_matter, the handlers of src/src/handlers.rs   *)
(*               and SearchService (src/src/services/search_service.rs).   *)
(*                                                                         *)
(* A Rust String is a sequence of one-character strings.  A document is    *)
(* the sequence of its lines, as str::lines() yields them.  Byte offsets   *)
(* are kept where the code slices a &str by bytes: Width gives a           *)
(* character's UTF-8 length.                                               *)
(***************************************************************************)
EXTENDS Integers, Sequences, FiniteSets, TLC

\* ------------------------------------------------------------ bounds
MaxLines == 3
MaxBlocks == 3

\* ------------------------------------------------------------ strings
TAB == "\t"

\* a two-byte character (U+00E9), one element of a string like any other
EAcute == "U+00E9"

\* the backtick (U+0060), which a string literal of this module cannot hold
BT == "U+0060"

Digits == {"0", "1", "2", "3", "4", "5", "6", "7", "8", "9"}
LowerLetters ==
    {"a", "b", "c", "d", "e", "f", "g", "h", "i", "j", "k", "l", "m",
     "n", "o", "p", "q", "r", "s", "t", "u", "v", "w", "x", "y", "z"}
UpperLetters == {"A", "B", "T"}

\* char::len_utf8
Width(c) == IF c = EAcute THEN 2 ELSE 1

\* char::is_alphanumeric
IsAlnum(c) == c \in Digits \cup LowerLetters \cup UpperLetters \cup {EAcute}

\* char::is_whitespace, for the characters a line can hold
IsWs(c) == c \in {" ", TAB}

\* str::to_lowercase, one character
LowerChar(c) ==
    CASE c = "A" -> "a"
      [] c = "B" -> "b"
      [] c = "T" -> "t"
      [] OTHER -> c

ToLower(s) == [k \in 1..Len(s) |-> LowerChar(s[k])]

\* str::len(): the length in bytes
RECURSIVE ByteLen(_)
ByteLen(s) == IF s = <<>> THEN 0 ELSE Width(Head(s)) + ByteLen(Tail(s))

\* str::is_char_boundary
IsCharBoundary(s, b) == \E k \in 0..Len(s) : ByteLen(SubSeq(s, 1, k)) = b

\* the number of characters before byte offset b (b a character boundary)
CharsBefore(s, b) == CHOOSE k \in 0..Len(s) : ByteLen(SubSeq(s, 1, k)) = b

\* &s[b..]: panics unless b is a character boundary of s
SliceFromOk(s, b) == IsCharBoundary(s, b)
SliceFrom(s, b) ==
    IF IsCharBoundary(s, b) THEN SubSeq(s, CharsBefore(s, b) + 1, Len(s)) ELSE <<>>

\* str::starts_with
StartsWith(s, p) == Len(s) >= Len(p) /\ SubSeq(s, 1, Len(p)) = p

\* str::ends_with
EndsWith(s, p) == Len(s) >= Len(p) /\ SubSeq(s, Len(s) - Len(p) + 1, Len(s)) = p

\* str::trim_start_matches(pattern): drops every leading repetition of p
RECURSIVE TrimStartMatches(_, _)
TrimStartMatches(s, p) ==
    IF p # <<>> /\ StartsWith(s, p)
    THEN TrimStartMatches(SubSeq(s, Len(p) + 1, Len(s)), p)
    ELSE s

\* str::trim_end_matches(pattern)
RECURSIVE TrimEndMatches(_, _)
TrimEndMatches(s, p) ==
    IF p # <<>> /\ EndsWith(s, p)
    THEN TrimEndMatches(SubSeq(s, 1, Len(s) - Len(p)), p)
    ELSE s

\* str::trim_matches(char)
TrimMatches(s, c) == TrimEndMatches(TrimStartMatches(s, <<c>>), <<c>>)

\* str::trim_start / trim_end / trim
RECURSIVE TrimStart(_)
TrimStart(s) == IF s # <<>> /\ IsWs(Head(s)) THEN TrimStart(Tail(s)) ELSE s

RECURSIVE TrimEnd(_)
TrimEnd(s) ==
    IF s # <<>> /\ IsWs(s[Len(s)]) THEN TrimEnd(SubSeq(s, 1, Len(s) - 1)) ELSE s

Trim(s) == TrimEnd(TrimStart(s))

\* str::replace(from, to) for a one-character pattern
RECURSIVE ReplaceChar(_, _, _)
ReplaceChar(s, c, r) ==
    IF s = <<>> THEN <<>>
    ELSE (IF Head(s) = c THEN r ELSE <<Head(s)>>) \o ReplaceChar(Tail(s), c, r)

\* str::contains(char), str::matches(char).count()
Contains(s, c) == \E k \in 1..Len(s) : s[k] = c
CountChar(s, c) == Cardinality({k \in 1..Len(s) : s[k] = c})

\* escape_html / escape_attr: the five replacements, in the code's order
escape_html(text) ==
    ReplaceChar(
      ReplaceChar(
        ReplaceChar(
          ReplaceChar(
            ReplaceChar(text, "&", <<"&", "a", "m", "p", ";">>),
            "<", <<"&", "l", "t", ";">>),
          ">", <<"&", "g", "t", ";">>),
        "\"", <<"&", "q", "u", "o", "t", ";">>),
      "'", <<"&", "#", "3", "9", ";">>)

escape_attr(text) == escape_html(text)

\* ------------------------------------------------------------ Vec<char>
\* chars[i] and chars[a..b] with the code's 0-based indices; an index or a
\* slice out of bounds panics, which the *Ok predicates record
IdxOk(chars, i) == 0 <= i /\ i < Len(chars)
Get(chars, i) == IF IdxOk(chars, i) THEN chars[i + 1] ELSE "<oob>"
SliceOk(chars, a, b) == 0 <= a /\ a <= b /\ b <= Len(chars)
Slice(chars, a, b) == SubSeq(chars, a + 1, b)

\* while j < chars.len() && chars[j] != c { j += 1 }
RECURSIVE FindChar(_, _, _)
FindChar(chars, j, c) ==
    IF j < Len(chars) /\ Get(chars, j) # c THEN FindChar(chars, j + 1, c) ELSE j

\* the marker comparison loop of replace_emphasis at position i
MarkerAt(chars, marker, i) ==
    \A k \in 0..(Len(marker) - 1) : Get(chars, i + k) = marker[k + 1]

\* every chars[i + k] that comparison reads is in bounds
MarkerReadOk(chars, marker, i) ==
    \A k \in 0..(Len(marker) - 1) :
        (\A k2 \in 0..(k - 1) : Get(chars, i + k2) = marker[k2 + 1])
            => IdxOk(chars, i + k)

\* the inner while of replace_emphasis: the first j >= from with a closing
\* marker at j whose content chars[start..j] is not blank; -1 when the scan
\* runs off the end (found stays false)
RECURSIVE FindClosing(_, _, _, _)
FindClosing(chars, marker, start, j) ==
    IF j + Len(marker) <= Len(chars)
    THEN IF MarkerAt(chars, marker, j) /\ Trim(Slice(chars, start, j)) # <<>>
         THEN j
         ELSE FindClosing(chars, marker, start, j + 1)
    ELSE -1

\* the reads and the slices of that scan stay in bounds
RECURSIVE ClosingScanOk(_, _, _, _)
ClosingScanOk(chars, marker, start, j) ==
    IF j + Len(marker) <= Len(chars)
    THEN /\ MarkerReadOk(chars, marker, j)
         /\ MarkerAt(chars, marker, j) => SliceOk(chars, start, j)
         /\ IF MarkerAt(chars, marker, j) /\ Trim(Slice(chars, start, j)) # <<>>
            THEN TRUE
            ELSE ClosingScanOk(chars, marker, start, j + 1)
    ELSE TRUE

\* mutant of EmphasisGuard: the marker test is tried wherever a character is left
EmphasisGuardAnyChar(chars, marker, i) == i < Len(chars)

\* the guard of the marker test: if i + marker_len <= chars.len()
EmphasisGuard(chars, marker, i) == i + Len(marker) <= Len(chars)

\* the index after one iteration of the outer while loop of replace_emphasis:
\* i = j + marker_len after a converted span, i += 1 otherwise
EmphasisNext(chars, marker, i) ==
    LET ml == Len(marker)
        is_marker == EmphasisGuard(chars, marker, i) /\ MarkerAt(chars, marker, i)
        j == IF is_marker THEN FindClosing(chars, marker, i + ml, i + ml) ELSE -1
    IN IF j # -1 THEN j + ml ELSE i + 1

\* replace_emphasis: the outer while loop, from index i with result so far
RECURSIVE EmphasisLoop(_, _, _, _, _, _, _)
EmphasisLoop(chars, marker, open_tag, close_tag, i, result, ok) ==
    IF ~(i < Len(chars)) THEN [out |-> result, ok |-> ok]
    ELSE
      LET ml == Len(marker)
          guard == EmphasisGuard(chars, marker, i)
          is_marker == guard /\ MarkerAt(chars, marker, i)
          j == IF is_marker THEN FindClosing(chars, marker, i + ml, i + ml) ELSE -1
          stepOk == /\ guard => MarkerReadOk(chars, marker, i)
                    /\ is_marker => ClosingScanOk(chars, marker, i + ml, i + ml)
                    /\ (j = -1) => IdxOk(chars, i)
      IN EmphasisLoop(chars, marker, open_tag, close_tag, EmphasisNext(chars, marker, i),
                      IF j # -1
                      THEN result \o open_tag \o Slice(chars, i + ml, j) \o close_tag
                      ELSE Append(result, Get(chars, i)),
                      ok /\ stepOk)

replace_emphasis(text, marker, open_tag, close_tag) ==
    EmphasisLoop(text, marker, open_tag, close_tag, 0, <<>>, TRUE)

\* the index after one iteration of the while loop of process_images
ImagesNext(chars, i) ==
    LET n == Len(chars)
        j == FindChar(chars, i + 2, "]")
        k == FindChar(chars, j + 2, ")")
    IN IF /\ i + 1 < n /\ Get(chars, i) = "!" /\ Get(chars, i + 1) = "["
          /\ j < n /\ j + 1 < n /\ Get(chars, j + 1) = "("
          /\ k < n
       THEN k + 1 ELSE i + 1

\* process_images: ![alt](url)
RECURSIVE ImagesLoop(_, _, _, _)
ImagesLoop(chars, i, result, ok) ==
    IF ~(i < Len(chars)) THEN [out |-> result, ok |-> ok]
    ELSE
      LET n == Len(chars)
          opens == i + 1 < n /\ Get(chars, i) = "!" /\ Get(chars, i + 1) = "["
          j == FindChar(chars, i + 2, "]")
          paren == opens /\ j < n /\ j + 1 < n /\ Get(chars, j + 1) = "("
          k == FindChar(chars, j + 2, ")")
          hit == paren /\ k < n
          stepOk == /\ paren => SliceOk(chars, i + 2, j)
                    /\ hit => SliceOk(chars, j + 2, k)
                    /\ ~hit => IdxOk(chars, i)
      IN ImagesLoop(chars, ImagesNext(chars, i),
             IF hit
             THEN result \o <<"<", "i", "m", "g", " ", "s", "r", "c", "=", "\"">>
                         \o escape_attr(Slice(chars, j + 2, k))
                         \o <<"\"", " ", "a", "l", "t", "=", "\"">>
                         \o escape_attr(Slice(chars, i + 2, j))
                         \o <<"\"", ">">>
             ELSE Append(result, Get(chars, i)),
             ok /\ stepOk)

process_images(text) == ImagesLoop(text, 0, <<>>, TRUE)

\* the url of a link: the .md suffix is stripped from an internal link
StripMdGuard(url) ==
    EndsWith(url, <<".", "m", "d">>) /\ ~StartsWith(url, <<"h", "t", "t", "p">>)

\* url[..url.len() - 3] is a byte slice
StripMdOk(url) ==
    StripMdGuard(url) => (ByteLen(url) - 3 >= 0 /\ IsCharBoundary(url, ByteLen(url) - 3))

LinkUrl(url) ==
    IF StripMdGuard(url) /\ StripMdOk(url)
    THEN SubSeq(url, 1, CharsBefore(url, ByteLen(url) - 3))
    ELSE url

\* the index after one iteration of the while loop of process_links
LinksNext(chars, i) ==
    LET n == Len(chars)
        j == FindChar(chars, i + 1, "]")
        k == FindChar(chars, j + 2, ")")
    IN IF /\ Get(chars, i) = "["
          /\ j < n /\ j + 1 < n /\ Get(chars, j + 1) = "("
          /\ k < n
       THEN k + 1 ELSE i + 1

\* process_links: [text](url)
RECURSIVE LinksLoop(_, _, _, _)
LinksLoop(chars, i, result, ok) ==
    IF ~(i < Len(chars)) THEN [out |-> result, ok |-> ok]
    ELSE
      LET n == Len(chars)
          opens == Get(chars, i) = "["
          j == FindChar(chars, i + 1, "]")
          paren == opens /\ j < n /\ j + 1 < n /\ Get(chars, j + 1) = "("
          k == FindChar(chars, j + 2, ")")
          hit == paren /\ k < n
          url == Slice(chars, j + 2, k)
          stepOk == /\ paren => SliceOk(chars, i + 1, j)
                    /\ hit => (SliceOk(chars, j + 2, k) /\ StripMdOk(url))
                    /\ ~hit => IdxOk(chars, i)
      IN LinksLoop(chars, LinksNext(chars, i),
             IF hit
             THEN result \o <<"<", "a", " ", "h", "r", "e", "f", "=", "\"">>
                         \o escape_attr(LinkUrl(url))
                         \o <<"\"", ">">>
                         \o escape_html(Slice(chars, i + 1, j))
                         \o <<"<", "/", "a", ">">>
             ELSE Append(result, Get(chars, i)),
             ok /\ stepOk)

process_links(text) == LinksLoop(text, 0, <<>>, TRUE)

\* the index after one iteration of the while loop of process_inline_code
InlineCodeNext(chars, i) ==
    LET j == FindChar(chars, i + 1, BT)
    IN IF Get(chars, i) = BT /\ j < Len(chars) /\ Trim(Slice(chars, i + 1, j)) # <<>>
       THEN j + 1 ELSE i + 1

\* process_inline_code: a span between two backticks
RECURSIVE InlineCodeLoop(_, _, _, _)
InlineCodeLoop(chars, i, result, ok) ==
    IF ~(i < Len(chars)) THEN [out |-> result, ok |-> ok]
    ELSE
      LET n == Len(chars)
          opens == Get(chars, i) = BT
          j == FindChar(chars, i + 1, BT)
          closed == opens /\ j < n
          hit == closed /\ Trim(Slice(chars, i + 1, j)) # <<>>
          stepOk == /\ closed => SliceOk(chars, i + 1, j)
                    /\ ~hit => IdxOk(chars, i)
      IN InlineCodeLoop(chars, InlineCodeNext(chars, i),
             IF hit
             THEN result \o <<"<", "c", "o", "d", "e", ">">>
                         \o escape_html(Slice(chars, i + 1, j))
                         \o <<"<", "/", "c", "o", "d", "e", ">">>
             ELSE Append(result, Get(chars, i)),
             ok /\ stepOk)

process_inline_code(text) == InlineCodeLoop(text, 0, <<>>, TRUE)

\* mutant of process_inline_markdown: the bold pass runs before bold-italic
InlineBoldFirst(text) ==
    LET r1 == process_images(text)
        r2 == process_links(r1.out)
        r3 == process_inline_code(r2.out)
        r4 == replace_emphasis(r3.out, <<"~", "~">>,
                  <<"<", "d", "e", "l", ">">>, <<"<", "/", "d", "e", "l", ">">>)
        r5 == replace_emphasis(r4.out, <<"*", "*">>,
                  <<"<", "s", "t", "r", "o", "n", "g", ">">>,
                  <<"<", "/", "s", "t", "r", "o", "n", "g", ">">>)
        r6 == replace_emphasis(r5.out, <<"*", "*", "*">>,
                  <<"<", "s", "t", "r", "o", "n", "g", ">", "<", "e", "m", ">">>,
                  <<"<", "/", "e", "m", ">", "<", "/", "s", "t", "r", "o", "n", "g", ">">>)
        r7 == replace_emphasis(r6.out, <<"*">>,
                  <<"<", "e", "m", ">">>, <<"<", "/", "e", "m", ">">>)
    IN [out |-> r7.out,
        ok |-> r1.ok /\ r2.ok /\ r3.ok /\ r4.ok /\ r5.ok /\ r6.ok /\ r7.ok]

\* process_inline_markdown: the seven passes, each over the previous output
process_inline_markdown(text) ==
    LET r1 == process_images(text)
        r2 == process_links(r1.out)
        r3 == process_inline_code(r2.out)
        r4 == replace_emphasis(r3.out, <<"~", "~">>,
                  <<"<", "d", "e", "l", ">">>, <<"<", "/", "d", "e", "l", ">">>)
        r5 == replace_emphasis(r4.out, <<"*", "*", "*">>,
                  <<"<", "s", "t", "r", "o", "n", "g", ">", "<", "e", "m", ">">>,
                  <<"<", "/", "e", "m", ">", "<", "/", "s", "t", "r", "o", "n", "g", ">">>)
        r6 == replace_emphasis(r5.out, <<"*", "*">>,
                  <<"<", "s", "t", "r", "o", "n", "g", ">">>,
                  <<"<", "/", "s", "t", "r", "o", "n", "g", ">">>)
        r7 == replace_emphasis(r6.out, <<"*">>,
                  <<"<", "e", "m", ">">>, <<"<", "/", "e", "m", ">">>)
    IN [out |-> r7.out,
        ok |-> r1.ok /\ r2.ok /\ r3.ok /\ r4.ok /\ r5.ok /\ r6.ok /\ r7.ok]

\* ------------------------------------------------------------ documents
\* The lines a document is drawn from: one or two of every block kind the
\* line loop distinguishes.
LineFrontMatter == <<"-", "-", "-">>
LineTitle == <<"t", "i", "t", "l", "e", ":", " ", "\"", "T", "\"">>
LineH1 == <<"#", " ", "A", "!">>
LineH2 == <<"#", "#", " ", "b">>
LineH7 == <<"#", "#", "#", "#", "#", "#", "#", " ", "c">>
LineUl == <<"-", " ", "x">>
LineOl == <<"1", ".", " ", "y">>
LineUl1 == <<" ", " ", " ", " ", "+", " ", "x">>
LineOl2 == <<TAB, TAB, "2", ".", " ", "y">>
LineFence == <<BT, BT, BT>>
LineBlank == <<>>
LinePara == <<"<", "b", ">", " ", "*", EAcute, "*">>
LineTable == <<"|", "a", "|", "b", "|">>
LineLink == <<"[", "x", "]", "(", EAcute, ".", "m", "d", ")">>

LineSet ==
    {LineFrontMatter, LineTitle, LineH1, LineH2, LineH7, LineUl, LineOl,
     LineUl1, LineOl2, LineFence, LineBlank, LinePara, LineTable, LineLink}

\* every document of at most MaxLines lines
Documents == UNION {[1..n -> LineSet] : n \in 0..MaxLines}

\* ------------------------------------------------------------ state
VARIABLES
    content,        \* the input: content.lines()
    pc,             \* where render_with_toc is: html, toc, title, done, panic
    i,              \* the line index of basic_markdown_to_html
    in_code_block,
    list_stack,     \* Vec<ListFrame>
    html,           \* the output of basic_markdown_to_html, as tokens
    toc,            \* the output of generate_toc, as tokens
    title,          \* the output of extract_title
    result,         \* what render_with_toc returned: none, Ok, Err
    \* render_markdown_with_toc (render.rs)
    front_title,    \* the title split_front_matter returned
    events,         \* what Parser::new_ext yields for the content
    rpc,            \* first (pass), second (pass), finish, done; idle in Spec
    ev,             \* the index of the next event of the running pass
    headings,       \* Vec<(level, id, text)>
    in_heading,     \* Option<u32>: 0 is None
    buf,
    id_counts,      \* HashMap<String, usize>
    rout,           \* `out`, the html of the second pass, as tokens
    idx,
    closing_stack,
    id_stack,
    rtoc,           \* the output of build_toc_html, as tokens
    page_title

renderVars == <<front_title, events, rpc, ev, headings, in_heading, buf, id_counts,
                rout, idx, closing_stack, id_stack, rtoc, page_title>>

svcVars == <<content, pc, i, in_code_block, list_stack, html, toc, title, result>>

\* a call of one of the free-standing functions (render_table, the inline
\* passes, split_front_matter): which function, its arguments, what it
\* returned, and whether the call is pending, has returned or has panicked
VARIABLES
    call,           \* the function called; "none" when no such call is modelled
    arg,            \* its arguments
    ret,            \* its return value
    fpc             \* idle, call, return, panic

fnVars == <<call, arg, ret, fpc>>

vars == <<svcVars, renderVars, fnVars>>

\* none of the free-standing functions is called
FnIdle ==
    /\ call = "none"
    /\ arg = <<>>
    /\ ret = <<>>
    /\ fpc = "idle"

\* One push_str of the code is one token: t names the format string, n its
\* number (heading level), a its attribute value (id, href, language), body
\* its text.  ln is the index of the input line the push was made for: a
\* history field, not part of the output.
Tok(t, n, a, body, ln) == [t |-> t, n |-> n, a |-> a, body |-> body, ln |-> ln]

NoneTitle == [some |-> FALSE, val |-> <<>>]
SomeTitle(v) == [some |-> TRUE, val |-> v]

\* ------------------------------------------------------------ lists
\* close_list_levels: pops up to `levels` frames, one closing tag each
RECURSIVE close_list_levels(_, _, _, _)
close_list_levels(levels, out, stack, ln) ==
    IF levels = 0 \/ stack = <<>> THEN [out |-> out, stack |-> stack]
    ELSE LET frame == stack[Len(stack)]
         IN close_list_levels(levels - 1,
                Append(out, Tok(IF frame.kind = "Unordered" THEN "ul_close" ELSE "ol_close",
                                0, <<>>, <<>>, ln)),
                SubSeq(stack, 1, Len(stack) - 1), ln)

\* open_list: one opening tag, one frame pushed
open_list(kind, out, stack, indent_level, ln) ==
    [out |-> Append(out, Tok(IF kind = "Unordered" THEN "ul_open" ELSE "ol_open",
                             0, <<>>, <<>>, ln)),
     stack |-> Append(stack, [kind |-> kind, indent_level |-> indent_level])]

\* while list_stack.len() < target_depth { open_list(this_kind, .., current_len) }
RECURSIVE OpenUntil(_, _, _, _, _)
OpenUntil(target_depth, kind, out, stack, ln) ==
    IF Len(stack) < target_depth
    THEN LET r == open_list(kind, out, stack, Len(stack), ln)
         IN OpenUntil(target_depth, kind, r.out, r.stack, ln)
    ELSE [out |-> out, stack |-> stack]

\* mutant of CloseAllLists: only the innermost list is closed
CloseInnermostList(out, stack, ln) ==
    IF stack # <<>> THEN close_list_levels(1, out, stack, ln)
    ELSE [out |-> out, stack |-> stack]

\* if !list_stack.is_empty() { close_list_levels(list_stack.len(), ..) }
CloseAllLists(out, stack, ln) ==
    IF stack # <<>> THEN close_list_levels(Len(stack), out, stack, ln)
    ELSE [out |-> out, stack |-> stack]

\* ------------------------------------------------------------ list items
\* the leading run of tabs and spaces
RECURSIVE LeadingWs(_)
LeadingWs(line) ==
    IF line # <<>> /\ Head(line) \in {TAB, " "}
    THEN <<Head(line)>> \o LeadingWs(Tail(line))
    ELSE <<>>

\* the ordered-marker scan: while j < line.len() and line[j..] starts with an
\* ASCII digit, j += ch.len_utf8()
RECURSIVE DigitsEnd(_, _)
DigitsEnd(line, j) ==
    IF j < ByteLen(line) /\ SliceFromOk(line, j)
       /\ SliceFrom(line, j) # <<>> /\ Head(SliceFrom(line, j)) \in Digits
    THEN DigitsEnd(line, j + Width(Head(SliceFrom(line, j))))
    ELSE j

\* every line[j..] of that scan is taken at a character boundary
RECURSIVE DigitsScanOk(_, _)
DigitsScanOk(line, j) ==
    IF j < ByteLen(line)
    THEN /\ SliceFromOk(line, j)
         /\ IF SliceFrom(line, j) # <<>> /\ Head(SliceFrom(line, j)) \in Digits
            THEN DigitsScanOk(line, j + Width(Head(SliceFrom(line, j))))
            ELSE TRUE
    ELSE TRUE

\* mutant of IndentLevel: every space counts as one level
IndentLevelPerSpace(tab_count, space_count) == tab_count + space_count

\* tabs count as 1, every 4 spaces as 1
IndentLevel(tab_count, space_count) == tab_count + (space_count \div 4)

UnorderedMarkers == {<<"-", " ">>, <<"*", " ">>, <<"+", " ">>}

\* where the item text starts after an ordered marker ending at byte j
OrderedContentStart(j) == j + 2

\* the indentation and list-marker analysis of one line
LineInfo(line) ==
    LET ws == LeadingWs(line)
        pos == Len(ws)
        tab_count == CountChar(ws, TAB)
        space_count == CountChar(ws, " ")
        restOk == SliceFromOk(line, pos)
        rest == IF restOk THEN SliceFrom(line, pos) ELSE <<>>
        unordered == \E m \in UnorderedMarkers : StartsWith(rest, m)
        j == DigitsEnd(line, pos)
        afterOk == SliceFromOk(line, j)
        ordered == /\ ~unordered
                   /\ j > pos
                   /\ afterOk
                   /\ StartsWith(SliceFrom(line, j), <<".", " ">>)
        content_start == IF unordered THEN pos + 2
                         ELSE IF ordered THEN OrderedContentStart(j)
                         ELSE pos
        is_list_item == unordered \/ ordered
    IN [indent_level |-> IndentLevel(tab_count, space_count),
        is_list_item |-> is_list_item,
        kind |-> IF ordered THEN "Ordered" ELSE "Unordered",
        content_start |-> content_start,
        ok |-> /\ restOk
               /\ ~unordered => (DigitsScanOk(line, pos) /\ (j > pos => afterOk))
               /\ is_list_item => SliceFromOk(line, content_start)]

\* ------------------------------------------------------------ headings
\* mutant of Anchor: the text is not lowercased
AnchorKeepCase(text) ==
    LET mapped == [k \in 1..Len(text) |->
                      IF IsAlnum(text[k]) \/ text[k] = " " THEN text[k] ELSE "-"]
    IN ReplaceChar(mapped, " ", <<"-">>)

\* the id of a heading: lowercase, every character that is neither
\* alphanumeric nor a space becomes '-', then every space becomes '-'
Anchor(text) ==
    LET lower == ToLower(text)
        mapped == [k \in 1..Len(lower) |->
                      IF IsAlnum(lower[k]) \/ lower[k] = " " THEN lower[k] ELSE "-"]
    IN ReplaceChar(mapped, " ", <<"-">>)

\* line.chars().take_while(|&c| c == '#').count()
RECURSIVE HashCount(_)
HashCount(line) ==
    IF line # <<>> /\ Head(line) = "#" THEN 1 + HashCount(Tail(line)) ELSE 0

HeadingText(line) == Trim(TrimStartMatches(line, <<"#">>))

\* ------------------------------------------------------------ tables
\* str::split(char)
RECURSIVE Split(_, _)
Split(s, c) ==
    IF ~Contains(s, c) THEN <<s>>
    ELSE LET k == FindChar(s, 0, c)
         IN <<Slice(s, 0, k)>> \o Split(SubSeq(s, k + 2, Len(s)), c)

\* cells.iter().skip(1).take(cells.len().saturating_sub(2))
InnerCells(cells) ==
    LET take == IF Len(cells) >= 2 THEN Len(cells) - 2 ELSE 0
    IN SubSeq(cells, 2, 1 + take)

\* the header cells: a blank cell emits nothing
RECURSIVE HeaderToks(_, _)
HeaderToks(cells, ln) ==
    IF cells = <<>> THEN <<>>
    ELSE (IF Trim(Head(cells)) # <<>>
          THEN <<Tok("th", 0, <<>>, escape_html(Trim(Head(cells))), ln)>>
          ELSE <<>>) \o HeaderToks(Tail(cells), ln)

HeaderCells(line, ln) == HeaderToks(InnerCells(Split(line, "|")), ln)

\* the cells of a data row: a blank cell emits an empty <td>
RowCells(line, ln) ==
    LET cells == InnerCells(Split(line, "|"))
    IN [k \in 1..Len(cells) |-> Tok("td", 0, <<>>, escape_html(Trim(cells[k])), ln)]

\* the data rows: while i < lines.len() && lines[i].contains('|')
RECURSIVE TableRows(_, _)
TableRows(lines, k) ==
    IF k < Len(lines) /\ Contains(lines[k + 1], "|")
    THEN <<Tok("tr_open", 0, <<>>, <<>>, k)>> \o RowCells(lines[k + 1], k)
         \o <<Tok("tr_close", 0, <<>>, <<>>, k)>> \o TableRows(lines, k + 1)
    ELSE <<>>

\* render_table(lines, start_idx): header, then the rows from start_idx + 2
render_table(lines, start_idx) ==
    <<Tok("table_open", 0, <<>>, <<>>, start_idx)>>
    \o (IF start_idx < Len(lines) THEN HeaderCells(lines[start_idx + 1], start_idx) ELSE <<>>)
    \o <<Tok("thead_close", 0, <<>>, <<>>, start_idx)>>
    \o TableRows(lines, start_idx + 2)
    \o <<Tok("table_close", 0, <<>>, <<>>, start_idx)>>

\* mutant of SkipTable: the table's lines are not skipped
SkipTableStuck(lines, k) == k

\* while i < lines.len() && lines[i].contains('|') { i += 1 }
RECURSIVE SkipTable(_, _)
SkipTable(lines, k) ==
    IF k < Len(lines) /\ Contains(lines[k + 1], "|") THEN SkipTable(lines, k + 1) ELSE k

\* ------------------------------------------------------------ generate_toc
\* the (level, text, anchor) items of generate_toc's line loop, from line k
RECURSIVE TocItems(_, _, _)
TocItems(lines, k, in_code) ==
    IF ~(k < Len(lines)) THEN <<>>
    ELSE LET line == lines[k + 1]
         IN IF StartsWith(line, <<BT, BT, BT>>) THEN TocItems(lines, k + 1, ~in_code)
            ELSE IF in_code THEN TocItems(lines, k + 1, in_code)
            ELSE IF /\ StartsWith(line, <<"#">>)
                    /\ HashCount(line) <= 6
                    /\ HeadingText(line) # <<>>
                 THEN <<[level |-> HashCount(line), text |-> HeadingText(line),
                         anchor |-> Anchor(HeadingText(line)), ln |-> k]>>
                      \o TocItems(lines, k + 1, in_code)
                 ELSE TocItems(lines, k + 1, in_code)

\* "  ".repeat(level - 1): the subtraction is on usize
TocIndentOk(items) == \A k \in 1..Len(items) : items[k].level - 1 >= 0

\* generate_toc: empty without items, else one <li> per item inside the <ul>
generate_toc(lines) ==
    LET items == TocItems(lines, 0, FALSE)
    IN IF items = <<>> THEN <<>>
       ELSE <<Tok("toc_open", 0, <<>>, <<>>, 0)>>
            \o [k \in 1..Len(items) |->
                   Tok("toc_li", items[k].level, items[k].anchor,
                       escape_html(items[k].text), items[k].ln)]
            \o <<Tok("toc_close", 0, <<>>, <<>>, 0)>>

\* ------------------------------------------------------------ extract_title
TitleValue(line) ==
    TrimMatches(TrimMatches(Trim(TrimStartMatches(line, <<"t", "i", "t", "l", "e", ":">>)),
                            "\""), "'")

\* the front-matter loop of extract_title, from line k: Some(title), or None
\* when the loop breaks or runs out
RECURSIVE FrontMatterTitle(_, _)
FrontMatterTitle(lines, k) ==
    IF ~(k < Len(lines)) THEN NoneTitle
    ELSE LET line == lines[k + 1]
             first == IF lines = <<>> THEN <<>> ELSE lines[1]
         IN IF StartsWith(line, <<"t", "i", "t", "l", "e", ":">>) /\ TitleValue(line) # <<>>
            THEN SomeTitle(TitleValue(line))
            ELSE IF StartsWith(line, <<"-", "-", "-">>) /\ line # first
                 THEN NoneTitle
                 ELSE FrontMatterTitle(lines, k + 1)

\* the heading loop of extract_title, from line k
RECURSIVE FirstHeadingTitle(_, _)
FirstHeadingTitle(lines, k) ==
    IF ~(k < Len(lines)) THEN NoneTitle
    ELSE LET line == lines[k + 1]
         IN IF StartsWith(line, <<"#">>) /\ HeadingText(line) # <<>>
            THEN SomeTitle(HeadingText(line))
            ELSE FirstHeadingTitle(lines, k + 1)

extract_title(lines) ==
    LET fm == IF lines # <<>> /\ StartsWith(lines[1], <<"-", "-", "-">>)
              THEN FrontMatterTitle(lines, 0)
              ELSE NoneTitle
    IN IF fm.some THEN fm ELSE FirstHeadingTitle(lines, 0)

\* ------------------------------------------------------------ render.rs
\* render_markdown_with_toc is not running
RenderIdle ==
    /\ front_title = NoneTitle
    /\ events = <<>>
    /\ rpc = "idle"
    /\ ev = 0
    /\ headings = <<>>
    /\ in_heading = 0
    /\ buf = <<>>
    /\ id_counts = <<>>
    /\ rout = <<>>
    /\ idx = 0
    /\ closing_stack = <<>>
    /\ id_stack = <<>>
    /\ rtoc = <<>>
    /\ page_title = NoneTitle

\* char::is_ascii_alphanumeric, after to_ascii_lowercase
IsAsciiAlnum(c) == c \in Digits \cup LowerLetters \cup UpperLetters

\* slugify: the loop over text.chars()
RECURSIVE SlugLoop(_, _, _)
SlugLoop(text, slug, last_dash) ==
    IF text = <<>> THEN slug
    ELSE LET c == LowerChar(Head(text))
         IN IF IsAsciiAlnum(c) THEN SlugLoop(Tail(text), Append(slug, c), FALSE)
            ELSE IF IsWs(c) \/ c = "-" \/ c = "_"
                 THEN IF ~last_dash /\ slug # <<>>
                      THEN SlugLoop(Tail(text), Append(slug, "-"), TRUE)
                      ELSE SlugLoop(Tail(text), slug, last_dash)
                 ELSE SlugLoop(Tail(text), slug, last_dash)

\* slugify: a trailing '-' is popped
slugify(text) ==
    LET slug == SlugLoop(text, <<>>, FALSE)
    IN IF slug # <<>> /\ slug[Len(slug)] = "-" THEN SubSeq(slug, 1, Len(slug) - 1) ELSE slug

\* format!("{}", n) for the numbers a document of this size can reach
DigitOf(n) ==
    CASE n = 0 -> "0" [] n = 1 -> "1" [] n = 2 -> "2" [] n = 3 -> "3" [] n = 4 -> "4"
      [] n = 5 -> "5" [] n = 6 -> "6" [] n = 7 -> "7" [] n = 8 -> "8" [] OTHER -> "9"

RECURSIVE FormatNat(_)
FormatNat(n) == IF n < 10 THEN <<DigitOf(n)>> ELSE Append(FormatNat(n \div 10), DigitOf(n % 10))

\* the id a heading gets: its slug (h{level} when empty), suffixed with the
\* number of earlier headings that computed the same slug
BaseId(text, lvl) ==
    IF slugify(text) = <<>> THEN <<"h">> \o FormatNat(lvl) ELSE slugify(text)

CountOf(counts, id) == IF id \in DOMAIN counts THEN counts[id] ELSE 0

AssignId(base, count) == IF count > 0 THEN base \o <<"-">> \o FormatNat(count) ELSE base

\* the events of the parser, one block after the other
HeadingBlock(level, parts) ==
    <<[type |-> "StartHeading", level |-> level, text |-> <<>>]>>
    \o parts
    \o <<[type |-> "EndHeading", level |-> level, text |-> <<>>]>>

TextEv(t) == [type |-> "Text", level |-> 0, text |-> t]
CodeEv(t) == [type |-> "Code", level |-> 0, text |-> t]
SoftBreakEv == [type |-> "SoftBreak", level |-> 0, text |-> <<>>]

ParagraphBlock(parts) ==
    <<[type |-> "StartParagraph", level |-> 0, text |-> <<>>]>>
    \o parts
    \o <<[type |-> "EndParagraph", level |-> 0, text |-> <<>>]>>

BlockSet ==
    {HeadingBlock(1, <<TextEv(<<"a">>)>>),
     HeadingBlock(2, <<TextEv(<<"A">>)>>),
     HeadingBlock(2, <<TextEv(<<"a">>), SoftBreakEv, CodeEv(<<"1">>)>>),
     HeadingBlock(1, <<TextEv(<<"!">>)>>),
     HeadingBlock(3, <<TextEv(<<"h", "1">>)>>),
     ParagraphBlock(<<TextEv(<<"a">>), SoftBreakEv, TextEv(<<"b">>)>>)}

RECURSIVE Flatten(_)
Flatten(blocks) == IF blocks = <<>> THEN <<>> ELSE Head(blocks) \o Flatten(Tail(blocks))

EventStreams == {Flatten(bs) : bs \in UNION {[1..n -> BlockSet] : n \in 0..MaxBlocks}}

FrontTitles == {NoneTitle, SomeTitle(<<"T">>)}

Event == events[ev + 1]

InFirst == rpc = "first" /\ ev < Len(events)
InSecond == rpc = "second" /\ ev < Len(events)

\* first pass, Event::Start(Tag::Heading)
FirstStartHeading ==
    /\ InFirst
    /\ Event.type = "StartHeading"
    /\ in_heading' = Event.level
    /\ buf' = <<>>
    /\ ev' = ev + 1
    /\ UNCHANGED <<front_title, events, rpc, headings, id_counts, rout, idx,
                   closing_stack, id_stack, rtoc, page_title>>
    /\ UNCHANGED <<svcVars, fnVars>>

\* first pass, Event::End(TagEnd::Heading): the heading gets its id
FirstEndHeading ==
    /\ InFirst
    /\ Event.type = "EndHeading"
    /\ IF in_heading # 0
       THEN LET base == BaseId(buf, in_heading)
                count == CountOf(id_counts, base)
            IN /\ headings' = Append(headings,
                                [level |-> in_heading, id |-> AssignId(base, count),
                                 text |-> buf])
               /\ id_counts' = [k \in DOMAIN id_counts \cup {base} |->
                                   IF k = base THEN count + 1 ELSE id_counts[k]]
       ELSE UNCHANGED <<headings, id_counts>>
    /\ in_heading' = 0
    /\ buf' = <<>>
    /\ ev' = ev + 1
    /\ UNCHANGED <<front_title, events, rpc, rout, idx, closing_stack, id_stack,
                   rtoc, page_title>>
    /\ UNCHANGED <<svcVars, fnVars>>

\* first pass, Event::Text | Event::Code
FirstText ==
    /\ InFirst
    /\ Event.type \in {"Text", "Code"}
    /\ buf' = IF in_heading # 0 THEN buf \o Event.text ELSE buf
    /\ ev' = ev + 1
    /\ UNCHANGED <<front_title, events, rpc, headings, in_heading, id_counts, rout,
                   idx, closing_stack, id_stack, rtoc, page_title>>
    /\ UNCHANGED <<svcVars, fnVars>>

\* first pass, Event::SoftBreak | Event::HardBreak
FirstBreak ==
    /\ InFirst
    /\ Event.type = "SoftBreak"
    /\ buf' = IF in_heading # 0 THEN Append(buf, " ") ELSE buf
    /\ ev' = ev + 1
    /\ UNCHANGED <<front_title, events, rpc, headings, in_heading, id_counts, rout,
                   idx, closing_stack, id_stack, rtoc, page_title>>
    /\ UNCHANGED <<svcVars, fnVars>>

\* first pass, any other event
FirstOther ==
    /\ InFirst
    /\ Event.type \in {"StartParagraph", "EndParagraph"}
    /\ ev' = ev + 1
    /\ UNCHANGED <<front_title, events, rpc, headings, in_heading, buf, id_counts,
                   rout, idx, closing_stack, id_stack, rtoc, page_title>>
    /\ UNCHANGED <<svcVars, fnVars>>

\* the first pass is over: the second pass parses the content again
FirstDone ==
    /\ rpc = "first"
    /\ ~(ev < Len(events))
    /\ rpc' = "second"
    /\ ev' = 0
    /\ UNCHANGED <<front_title, events, headings, in_heading, buf, id_counts, rout,
                   idx, closing_stack, id_stack, rtoc, page_title>>
    /\ UNCHANGED <<svcVars, fnVars>>

\* mutant of HeadingIdAt: the id of the heading after the one being opened
HeadingIdAtNext(hs, k) == IF k + 1 < Len(hs) THEN hs[k + 2].id ELSE <<>>

\* headings.get(idx).map(|(_, id, _)| id).unwrap_or("")
HeadingIdAt(hs, k) == IF k < Len(hs) THEN hs[k + 1].id ELSE <<>>

\* second pass, Event::Start(Tag::Heading): <h{lvl} id="{id}">
SecondStartHeading ==
    /\ InSecond
    /\ Event.type = "StartHeading"
    /\ LET id == HeadingIdAt(headings, idx)
       IN /\ rout' = Append(rout, Tok("h_open", Event.level, escape_attr(id), <<>>, ev))
          /\ id_stack' = Append(id_stack, id)
    /\ closing_stack' = Append(closing_stack, Event.level)
    /\ idx' = idx + 1
    /\ ev' = ev + 1
    /\ UNCHANGED <<front_title, events, rpc, headings, in_heading, buf, id_counts,
                   rtoc, page_title>>
    /\ UNCHANGED <<svcVars, fnVars>>

\* the anchor link of a heading: <a class="hlink" href="#{id}" ..>#</a>
HeadingLink(id, ln) == Tok("hlink", 0, escape_attr(id), <<"#">>, ln)

\* second pass, Event::End(TagEnd::Heading): the anchor link, then </h{lvl}>
SecondEndHeading ==
    /\ InSecond
    /\ Event.type = "EndHeading"
    /\ LET id_for_anchor == IF id_stack # <<>> THEN id_stack[Len(id_stack)] ELSE <<>>
           lvl == IF closing_stack # <<>> THEN closing_stack[Len(closing_stack)] ELSE 1
       IN rout' = rout \o <<HeadingLink(id_for_anchor, ev), Tok("h_close", lvl, <<>>, <<>>, ev)>>
    /\ id_stack' = IF id_stack # <<>> THEN SubSeq(id_stack, 1, Len(id_stack) - 1) ELSE id_stack
    /\ closing_stack' = IF closing_stack # <<>>
                        THEN SubSeq(closing_stack, 1, Len(closing_stack) - 1)
                        ELSE closing_stack
    /\ ev' = ev + 1
    /\ UNCHANGED <<front_title, events, rpc, headings, in_heading, buf, id_counts,
                   idx, rtoc, page_title>>
    /\ UNCHANGED <<svcVars, fnVars>>

\* second pass, any other event: html::push_html(&mut out, once(ev))
SecondOther ==
    /\ InSecond
    /\ Event.type \notin {"StartHeading", "EndHeading"}
    /\ rout' = Append(rout, Tok(Event.type, 0, <<>>, Event.text, ev))
    /\ ev' = ev + 1
    /\ UNCHANGED <<front_title, events, rpc, headings, in_heading, buf, id_counts,
                   idx, closing_stack, id_stack, rtoc, page_title>>
    /\ UNCHANGED <<svcVars, fnVars>>

\* build_toc_html: the loop over the headings, from heading k at depth current
RECURSIVE TocLoop(_, _, _)
TocLoop(hs, k, current) ==
    IF ~(k < Len(hs))
    THEN [x \in 1..current |-> Tok("/ul", 0, <<>>, <<>>, k)]
    ELSE LET h == hs[k + 1]
         IN IF h.level > 6 \/ h.level < 1 THEN TocLoop(hs, k + 1, current)
            ELSE [x \in 1..(IF current < h.level THEN h.level - current ELSE 0) |->
                     Tok("ul", 0, <<>>, <<>>, k)]
                 \o [x \in 1..(IF current > h.level THEN current - h.level ELSE 0) |->
                     Tok("/ul", 0, <<>>, <<>>, k)]
                 \o <<Tok("li", h.level, escape_attr(h.id), h.text, k)>>
                 \o TocLoop(hs, k + 1, h.level)

build_toc_html(hs) ==
    IF hs = <<>> THEN <<>>
    ELSE <<Tok("nav_open", 0, <<>>, <<>>, 0)>> \o TocLoop(hs, 0, 0)
         \o <<Tok("nav_close", 0, <<>>, <<>>, 0)>>

\* first_heading_text: the first level-1 heading whose text is not blank
RECURSIVE first_heading_text(_)
first_heading_text(hs) ==
    IF hs = <<>> THEN NoneTitle
    ELSE IF Head(hs).level = 1 /\ Trim(Head(hs).text) # <<>>
         THEN SomeTitle(Head(hs).text)
         ELSE first_heading_text(Tail(hs))

\* the second pass is over: the TOC and the page title
RenderFinish ==
    /\ rpc = "second"
    /\ ~(ev < Len(events))
    /\ rtoc' = build_toc_html(headings)
    /\ page_title' = IF front_title.some THEN front_title ELSE first_heading_text(headings)
    /\ rpc' = "done"
    /\ UNCHANGED <<front_title, events, ev, headings, in_heading, buf, id_counts, rout,
                   idx, closing_stack, id_stack>>
    /\ UNCHANGED <<svcVars, fnVars>>

SvcIdle ==
    /\ content = <<>>
    /\ pc = "idle"
    /\ i = 0
    /\ in_code_block = FALSE
    /\ list_stack = <<>>
    /\ html = <<>>
    /\ toc = <<>>
    /\ title = NoneTitle
    /\ result = "none"

InitRender ==
    /\ SvcIdle
    /\ FnIdle
    /\ front_title \in FrontTitles
    /\ events \in EventStreams
    /\ rpc = "first"
    /\ ev = 0
    /\ headings = <<>>
    /\ in_heading = 0
    /\ buf = <<>>
    /\ id_counts = <<>>
    /\ rout = <<>>
    /\ idx = 0
    /\ closing_stack = <<>>
    /\ id_stack = <<>>
    /\ rtoc = <<>>
    /\ page_title = NoneTitle

NextRender ==
    \/ FirstStartHeading
    \/ FirstEndHeading
    \/ FirstText
    \/ FirstBreak
    \/ FirstOther
    \/ FirstDone
    \/ SecondStartHeading
    \/ SecondEndHeading
    \/ SecondOther
    \/ RenderFinish

SpecRender == InitRender /\ [][NextRender]_vars


\* ------------------------------------------------------------ the line loop
Line == content[i + 1]

InLoop == pc = "html" /\ i < Len(content)

IsFrontMatterLine == StartsWith(Line, <<"-", "-", "-">>)
IsFenceLine == StartsWith(Line, <<BT, BT, BT>>)
IsHeadingLine == StartsWith(Line, <<"#">>)
IsTableLine == CountChar(Line, "|") > 1

\* while i < lines.len() && !lines[i].starts_with("---") { i += 1 }
RECURSIVE SkipFrontMatter(_, _)
SkipFrontMatter(lines, k) ==
    IF k < Len(lines) /\ ~StartsWith(lines[k + 1], <<"-", "-", "-">>)
    THEN SkipFrontMatter(lines, k + 1)
    ELSE k

\* a line that starts with "---": skip to the next such line and past it
FrontMatterSkip ==
    /\ InLoop
    /\ IsFrontMatterLine
    /\ i' = SkipFrontMatter(content, i + 1) + 1
    /\ UNCHANGED <<content, pc, in_code_block, list_stack, html, toc, title, result>>
    /\ UNCHANGED <<renderVars, fnVars>>

\* a line that starts with three backticks opens or closes a code block
CodeFence ==
    /\ InLoop
    /\ ~IsFrontMatterLine
    /\ IsFenceLine
    /\ LET c == CloseAllLists(html, list_stack, i)
           lang == Trim(TrimStartMatches(Line, <<BT, BT, BT>>))
       IN /\ list_stack' = c.stack
          /\ in_code_block' = ~in_code_block
          /\ html' = Append(c.out, IF ~in_code_block
                                   THEN Tok("pre_open", 0, lang, <<>>, i)
                                   ELSE Tok("pre_close", 0, <<>>, <<>>, i))
    /\ i' = i + 1
    /\ UNCHANGED <<content, pc, toc, title, result>>
    /\ UNCHANGED <<renderVars, fnVars>>

\* a line inside a code block is emitted escaped
CodeLine ==
    /\ InLoop
    /\ ~IsFrontMatterLine
    /\ ~IsFenceLine
    /\ in_code_block
    /\ html' = Append(html, Tok("code_line", 0, <<>>, escape_html(Line), i))
    /\ i' = i + 1
    /\ UNCHANGED <<content, pc, in_code_block, list_stack, toc, title, result>>
    /\ UNCHANGED <<renderVars, fnVars>>

OutsideCode == InLoop /\ ~IsFrontMatterLine /\ ~IsFenceLine /\ ~in_code_block

\* a line that starts with '#'
Heading ==
    /\ OutsideCode
    /\ IsHeadingLine
    /\ LET c == CloseAllLists(html, list_stack, i)
           level == HashCount(Line)
           text == HeadingText(Line)
           processed == process_inline_markdown(text)
       IN /\ list_stack' = c.stack
          /\ IF text = <<>>
             THEN /\ html' = c.out
                  /\ pc' = pc
             ELSE IF processed.ok
                  THEN /\ html' = Append(c.out, Tok("h", level, Anchor(text), processed.out, i))
                       /\ pc' = pc
                  ELSE /\ html' = c.out
                       /\ pc' = "panic"
    /\ i' = i + 1
    /\ UNCHANGED <<content, in_code_block, toc, title, result>>
    /\ UNCHANGED <<renderVars, fnVars>>

OtherLine == OutsideCode /\ ~IsHeadingLine

\* a list item: adjust the open lists to the item's depth and kind, emit <li>
ListItem ==
    /\ OtherLine
    /\ LineInfo(Line).is_list_item
    /\ LET info == LineInfo(Line)
           this_kind == info.kind
           current_depth == Len(list_stack)
           target_depth == info.indent_level + 1
           c1 == IF target_depth < current_depth
                 THEN close_list_levels(current_depth - target_depth, html, list_stack, i)
                 ELSE [out |-> html, stack |-> list_stack]
           c2 == IF /\ c1.stack # <<>>
                    /\ c1.stack[Len(c1.stack)].indent_level + 1 = target_depth
                    /\ c1.stack[Len(c1.stack)].kind # this_kind
                 THEN close_list_levels(1, c1.out, c1.stack, i)
                 ELSE c1
           c3 == OpenUntil(target_depth, this_kind, c2.out, c2.stack, i)
           item_text == TrimEnd(SliceFrom(Line, info.content_start))
           processed == process_inline_markdown(Trim(item_text))
       IN IF ~info.ok
          THEN /\ pc' = "panic"
               /\ UNCHANGED <<list_stack, html>>
          ELSE /\ list_stack' = c3.stack
               /\ IF processed.ok
                  THEN /\ html' = Append(c3.out, Tok("li", 0, <<>>, processed.out, i))
                       /\ pc' = pc
                  ELSE /\ html' = c3.out
                       /\ pc' = "panic"
    /\ i' = i + 1
    /\ UNCHANGED <<content, in_code_block, toc, title, result>>
    /\ UNCHANGED <<renderVars, fnVars>>

\* a line with more than one '|': the table and every following '|' line
Table ==
    /\ OtherLine
    /\ ~LineInfo(Line).is_list_item
    /\ IsTableLine
    /\ LET c == CloseAllLists(html, list_stack, i)
       IN IF ~LineInfo(Line).ok
          THEN /\ pc' = "panic"
               /\ UNCHANGED <<list_stack, html>>
          ELSE /\ list_stack' = c.stack
               /\ html' = c.out \o render_table(content, i)
               /\ pc' = pc
    /\ i' = SkipTable(content, i)
    /\ UNCHANGED <<content, in_code_block, toc, title, result>>
    /\ UNCHANGED <<renderVars, fnVars>>

\* a blank line closes the open lists and emits <br>
Blank ==
    /\ OtherLine
    /\ ~LineInfo(Line).is_list_item
    /\ ~IsTableLine
    /\ Trim(Line) = <<>>
    /\ LET c == CloseAllLists(html, list_stack, i)
       IN IF ~LineInfo(Line).ok
          THEN /\ pc' = "panic"
               /\ UNCHANGED <<list_stack, html>>
          ELSE /\ list_stack' = c.stack
               /\ html' = Append(c.out, Tok("br", 0, <<>>, <<>>, i))
               /\ pc' = pc
    /\ i' = i + 1
    /\ UNCHANGED <<content, in_code_block, toc, title, result>>
    /\ UNCHANGED <<renderVars, fnVars>>

\* anything else is a paragraph
Paragraph ==
    /\ OtherLine
    /\ ~LineInfo(Line).is_list_item
    /\ ~IsTableLine
    /\ Trim(Line) # <<>>
    /\ LET c == CloseAllLists(html, list_stack, i)
           processed == process_inline_markdown(Line)
       IN /\ list_stack' = c.stack
          /\ IF ~LineInfo(Line).ok \/ ~processed.ok
             THEN /\ html' = c.out
                  /\ pc' = "panic"
             ELSE /\ html' = IF Trim(processed.out) # <<>>
                             THEN Append(c.out, Tok("p", 0, <<>>, processed.out, i))
                             ELSE c.out
                  /\ pc' = pc
    /\ i' = i + 1
    /\ UNCHANGED <<content, in_code_block, toc, title, result>>
    /\ UNCHANGED <<renderVars, fnVars>>

\* the loop is over: close the remaining lists, Ok(html)
HtmlDone ==
    /\ pc = "html"
    /\ ~(i < Len(content))
    /\ LET c == CloseAllLists(html, list_stack, i)
       IN /\ list_stack' = c.stack
          /\ html' = c.out
    /\ pc' = "toc"
    /\ UNCHANGED <<content, i, in_code_block, toc, title, result>>
    /\ UNCHANGED <<renderVars, fnVars>>

\* let toc = self.generate_toc(content)?
GenerateToc ==
    /\ pc = "toc"
    /\ IF TocIndentOk(TocItems(content, 0, FALSE))
       THEN /\ toc' = generate_toc(content)
            /\ pc' = "title"
       ELSE /\ toc' = toc
            /\ pc' = "panic"
    /\ UNCHANGED <<content, i, in_code_block, list_stack, html, title, result>>
    /\ UNCHANGED <<renderVars, fnVars>>

\* Ok(MarkdownResult { html, toc, title: self.extract_title(content) })
ExtractTitle ==
    /\ pc = "title"
    /\ title' = extract_title(content)
    /\ result' = "Ok"
    /\ pc' = "done"
    /\ UNCHANGED <<content, i, in_code_block, list_stack, html, toc>>
    /\ UNCHANGED <<renderVars, fnVars>>

Init ==
    /\ content \in Documents
    /\ pc = "html"
    /\ i = 0
    /\ in_code_block = FALSE
    /\ list_stack = <<>>
    /\ html = <<>>
    /\ toc = <<>>
    /\ title = NoneTitle
    /\ result = "none"
    /\ RenderIdle
    /\ FnIdle

Next ==
    \/ FrontMatterSkip
    \/ CodeFence
    \/ CodeLine
    \/ Heading
    \/ ListItem
    \/ Table
    \/ Blank
    \/ Paragraph
    \/ HtmlDone
    \/ GenerateToc
    \/ ExtractTitle

Spec == Init /\ [][Next]_vars

\* ------------------------------------------------------------ function calls
\* The free-standing functions of the renderer, each called once on an
\* argument drawn from a bounded set.
MaxSegs == 3
MaxEmphLen == 5
MaxRows == 2
MaxRawLines == 3

\* the concatenation of a sequence of strings
RECURSIVE Concat(_)
Concat(ss) == IF ss = <<>> THEN <<>> ELSE Head(ss) \o Concat(Tail(ss))

\* every sequence of at most n elements of S
SeqsOf(S, n) == UNION {[1..k -> S] : k \in 0..n}

\* the marker, open tag and close tag of each replace_emphasis pass
Passes ==
    [del |-> [marker |-> <<"~", "~">>, open_tag |-> <<"<", "d", "e", "l", ">">>, close_tag |-> <<"<", "/", "d", "e", "l", ">">>],
     bolditalic |-> [marker |-> <<"*", "*", "*">>, open_tag |-> <<"<", "s", "t", "r", "o", "n", "g", ">", "<", "e", "m", ">">>,
                     close_tag |-> <<"<", "/", "e", "m", ">", "<", "/", "s", "t", "r", "o", "n", "g", ">">>],
     bold |-> [marker |-> <<"*", "*">>, open_tag |-> <<"<", "s", "t", "r", "o", "n", "g", ">">>, close_tag |-> <<"<", "/", "s", "t", "r", "o", "n", "g", ">">>],
     italic |-> [marker |-> <<"*">>, open_tag |-> <<"<", "e", "m", ">">>, close_tag |-> <<"<", "/", "e", "m", ">">>]]

\* A text is written as segments: a span wraps x in the marker of its kind, a
\* plain segment is x itself.
Seg(kind, x) == [kind |-> kind, x |-> x]

SegText(seg) ==
    IF seg.kind = "plain" THEN seg.x
    ELSE Passes[seg.kind].marker \o seg.x \o Passes[seg.kind].marker

SegSet ==
    {Seg("bolditalic", <<"a">>), Seg("bold", <<"a", " ", "b">>), Seg("italic", <<" ", EAcute>>),
     Seg("plain", <<" ", "c", " ">>), Seg("plain", <<" ">>), Seg("plain", <<"b">>),
     Seg("plain", <<"*">>), Seg("plain", <<"*", "*">>), Seg("plain", <<"*", "*", "*">>),
     Seg("plain", <<"~", "~">>), Seg("plain", <<BT>>),
     Seg("plain", <<"[", "x", "]", "(", "*", "b", "*", ")">>)}

TextOf(segs) == Concat([k \in 1..Len(segs) |-> SegText(segs[k])])

\* the texts process_inline_markdown is called on
InlineArgs == {[segs |-> segs, text |-> TextOf(segs)] : segs \in SeqsOf(SegSet, MaxSegs)}

\* the texts and markers replace_emphasis is called on
EmphasisArgs ==
    {[text |-> t, pass |-> p] : t \in SeqsOf({"*", "~", " ", "a"}, MaxEmphLen),
                                p \in {"del", "bold", "italic"}}

\* the links process_links is called on: [x](url)
Urls ==
    {p \o s \o e : p \in {<<>>, <<"h", "t", "t", "p", ":", "/", "/">>, <<"h", "t", "t", "p", "s", ":", "/", "/">>, <<"h", "t", "t", "p">>, <<"/">>},
                   s \in {<<"a">>, <<EAcute>>, <<"a", "&", "b">>},
                   e \in {<<>>, <<".", "m", "d">>, <<".", "m", "d", "x">>, <<".", "m", "d", "#", "s">>}}

LinkArgs == {[url |-> u, text |-> <<"[", "x", "]", "(">> \o u \o <<")">>] : u \in Urls}

\* the tables render_table is called on: header, separator, data rows
TableArgs ==
    {<<h, <<"|", "-", "|", "-", "|">>>> \o rows : h \in {<<"|", "a", "|", "b", "|">>, <<"|", "a", "|">>},
                                rows \in SeqsOf({<<"|", "x", "|", "y", "|">>, <<"|", "x", "|">>, <<"|", "x", "|", "|">>, <<"|", "x", "|", "y", "|", "z", "|">>},
                                                MaxRows)}

\* ------------------------------------------------------------ split_front_matter
NL == "\n"

\* &raw[a..b]: the byte offsets must be ordered, in range and char boundaries
ByteSliceOk(s, a, b) ==
    /\ 0 <= a /\ a <= b /\ b <= ByteLen(s)
    /\ IsCharBoundary(s, a) /\ IsCharBoundary(s, b)

ByteSlice(s, a, b) ==
    IF ByteSliceOk(s, a, b) THEN SubSeq(s, CharsBefore(s, a) + 1, CharsBefore(s, b)) ELSE <<>>

\* bytes[idx] != b'\n': only the byte that starts a character can be a newline
ByteIsNewline(s, b) == IsCharBoundary(s, b) /\ b < ByteLen(s) /\ s[CharsBefore(s, b) + 1] = NL

\* while idx < bytes.len() && bytes[idx] != b'\n' { idx += 1; }
RECURSIVE LineEnd(_, _)
LineEnd(raw, k) ==
    IF k < ByteLen(raw) /\ ~ByteIsNewline(raw, k) THEN LineEnd(raw, k + 1) ELSE k

\* line.split_once(':')
HasColon(line) == Contains(line, ":")
KeyOf(line) == Slice(line, 0, FindChar(line, 0, ":"))
ValueOf(line) == SubSeq(line, FindChar(line, 0, ":") + 2, Len(line))

IsTitleKey(line) == HasColon(line) /\ ToLower(Trim(KeyOf(line))) = <<"t", "i", "t", "l", "e">>

\* the value is wrapped in a pair of double or of single quotes
IsQuoted(val) ==
    \/ StartsWith(val, <<"\"">>) /\ EndsWith(val, <<"\"">>)
    \/ StartsWith(val, <<"'">>) /\ EndsWith(val, <<"'">>)

\* val = &val[1..val.len()-1]
UnquoteOk(val) == IsQuoted(val) => ByteSliceOk(val, 1, ByteLen(val) - 1)

Unquote(val) == IF IsQuoted(val) THEN ByteSlice(val, 1, ByteLen(val) - 1) ELSE val

\* the while loop of split_front_matter from byte offset k, with the title
\* found so far
RECURSIVE FrontMatterLoop(_, _, _, _)
FrontMatterLoop(raw, k, found, ok) ==
    IF ~(k < ByteLen(raw)) THEN [title |-> NoneTitle, body |-> raw, ok |-> ok]
    ELSE
      LET start == k
          e == LineEnd(raw, k)
          line == ByteSlice(raw, start, e)
          lineOk == ByteSliceOk(raw, start, e)
          val == Trim(ValueOf(line))
          new_title == IF IsTitleKey(line) /\ Unquote(val) # <<>>
                       THEN SomeTitle(Unquote(val))
                       ELSE found
      IN IF Trim(line) = <<"-", "-", "-">>
         THEN [title |-> found,
               body |-> ByteSlice(raw, e + 1, ByteLen(raw)),
               ok |-> ok /\ lineOk /\ ByteSliceOk(raw, e + 1, ByteLen(raw))]
         ELSE FrontMatterLoop(raw, e + 1, new_title,
                              ok /\ lineOk /\ (IsTitleKey(line) => UnquoteOk(val)))

split_front_matter(raw) ==
    IF StartsWith(raw, <<"-", "-", "-", NL>>)
    THEN FrontMatterLoop(raw, 4, NoneTitle, TRUE)
    ELSE [title |-> NoneTitle, body |-> raw, ok |-> TRUE]

\* the files split_front_matter is called on: lines joined by newlines, with
\* or without a newline after the last line
RawLineSet ==
    {<<"-", "-", "-">>, <<" ", "-", "-", "-", " ">>, <<"t", "i", "t", "l", "e", ":", " ", "'", "T", "'">>, <<"T", "i", "t", "l", "e", ":", " ", "\"", EAcute, "\"">>, <<"t", "i", "t", "l", "e", ":", " ", "'">>, <<EAcute, ":", " ", "x">>, <<"#", " ", "A">>}

RECURSIVE JoinLines(_)
JoinLines(ls) ==
    IF ls = <<>> THEN <<>>
    ELSE IF Len(ls) = 1 THEN ls[1]
    ELSE ls[1] \o <<NL>> \o JoinLines(Tail(ls))

RawArgs ==
    {JoinLines(ls) \o t : ls \in SeqsOf(RawLineSet, MaxRawLines), t \in {<<>>, <<NL>>}}

\* ------------------------------------------------------------ the calls
Apply(r) ==
    IF r.ok
    THEN /\ ret' = r.out
         /\ fpc' = "return"
    ELSE /\ ret' = ret
         /\ fpc' = "panic"

Calling(f) == fpc = "call" /\ call = f

CallInline ==
    /\ Calling("process_inline_markdown")
    /\ Apply(process_inline_markdown(arg.text))
    /\ UNCHANGED <<call, arg, svcVars, renderVars>>

CallEmphasis ==
    /\ Calling("replace_emphasis")
    /\ LET p == Passes[arg.pass]
       IN Apply(replace_emphasis(arg.text, p.marker, p.open_tag, p.close_tag))
    /\ UNCHANGED <<call, arg, svcVars, renderVars>>

CallLinks ==
    /\ Calling("process_links")
    /\ Apply(process_links(arg.text))
    /\ UNCHANGED <<call, arg, svcVars, renderVars>>

CallTable ==
    /\ Calling("render_table")
    /\ Apply([out |-> render_table(arg, 0), ok |-> TRUE])
    /\ UNCHANGED <<call, arg, svcVars, renderVars>>

CallSplitFrontMatter ==
    /\ Calling("split_front_matter")
    /\ LET r == split_front_matter(arg)
       IN Apply([out |-> [title |-> r.title, body |-> r.body], ok |-> r.ok])
    /\ UNCHANGED <<call, arg, svcVars, renderVars>>

\* ------------------------------------------------------------ handlers.rs
\* A request path is the sequence of its '/'-separated segments ("" between
\* two adjacent slashes, so <<"", "a">> is "/a" and <<"", "">> is "/").  A
\* location of the file system is the sequence of names from its root.
MaxPathLen == 2

Base == <<"base">>

StaticDir == <<"static">>

NoEnt == <<"?">>

PathSegs == {"", "..", "a", "a.md", "a.txt", "secret.md"}

RequestPaths == UNION {[1..n -> PathSegs] : n \in 0..MaxPathLen}

FsOf(root_index, a, amd, aidx, ardm) ==
    [dirs  |-> {<<>>, Base, StaticDir}
                  \cup (IF a = "dir" THEN {Base \o <<"a">>} ELSE {}),
     files |-> {<<"secret.md">>, StaticDir \o <<"a.txt">>}
                  \cup (IF root_index THEN {Base \o <<"index.md">>} ELSE {})
                  \cup (IF a = "file" THEN {Base \o <<"a">>} ELSE {})
                  \cup (IF amd THEN {Base \o <<"a.md">>} ELSE {})
                  \cup (IF a = "dir" /\ aidx
                        THEN {Base \o <<"a", "index.md">>} ELSE {})
                  \cup (IF a = "dir" /\ ardm
                        THEN {Base \o <<"a", "README.md">>} ELSE {})]

FileSystems ==
    {FsOf(root_index, a, amd, aidx, ardm) :
        root_index \in BOOLEAN, a \in {"none", "file", "dir"},
        amd \in BOOLEAN, aidx \in BOOLEAN, ardm \in BOOLEAN}

HandlerArgs == [fs : FileSystems, path : RequestPaths]

\* path.trim_matches('/')
RECURSIVE TrimSlashStart(_)
TrimSlashStart(s) ==
    IF s # <<>> /\ Head(s) = "" THEN TrimSlashStart(Tail(s)) ELSE s

RECURSIVE TrimSlashEnd(_)
TrimSlashEnd(s) ==
    IF s # <<>> /\ s[Len(s)] = ""
    THEN TrimSlashEnd(SubSeq(s, 1, Len(s) - 1))
    ELSE s

normalize_path(path) == TrimSlashEnd(TrimSlashStart(path))

\* Path::components: repeated separators disappear, ".." stays
Components(s) == SelectSeq(s, LAMBDA c : c # "")

IsAbsolute(s) == Len(s) >= 2 /\ s[1] = ""

\* Path::join: an absolute argument replaces the receiver
PathJoin(dir, s) ==
    IF IsAbsolute(s) THEN Components(s) ELSE dir \o Components(s)

FormatChild(normalized, name) ==
    IF normalized = <<>> THEN <<"", name>> ELSE Append(normalized, name)

Parent(p) == IF p = <<>> THEN p ELSE SubSeq(p, 1, Len(p) - 1)

\* the location the operating system resolves a path to: each ".." leaves
\* the directory reached so far, and nothing is found below a missing name
RECURSIVE Walk(_, _, _)
Walk(fs, cur, comps) ==
    IF comps = <<>> THEN cur
    ELSE IF cur \notin fs.dirs THEN NoEnt
    ELSE IF Head(comps) = ".." THEN Walk(fs, Parent(cur), Tail(comps))
    ELSE Walk(fs, Append(cur, Head(comps)), Tail(comps))

Locate(fs, p) == Walk(fs, <<>>, p)

is_dir(fs, p) == Locate(fs, p) \in fs.dirs

is_file(fs, p) == Locate(fs, p) \in fs.files

exists(fs, p) == is_dir(fs, p) \/ is_file(fs, p)

ExtensionMd(name) ==
    CASE name = ".." -> ".."
      [] name \in {"a", "a.md", "a.txt"} -> "a.md"
      [] name \in {"base", "static"} -> name \o ".md"
      [] OTHER -> name

with_extension(p) ==
    IF p = <<>> THEN p ELSE [p EXCEPT ![Len(p)] = ExtensionMd(p[Len(p)])]

is_markdown(p) ==
    p # <<>> /\ p[Len(p)] \in {"a.md", "index.md", "README.md", "secret.md"}

strip_prefix(p, dir) == SubSeq(p, Len(dir) + 1, Len(p))

Failed(status) == [status |-> status, read |-> {}]

read_file(fs, path) ==
    LET full_path == PathJoin(Base, path)
    IN  IF ~exists(fs, full_path) THEN Failed("NotFound")
        ELSE IF ~is_file(fs, full_path) THEN Failed("InvalidPath")
        ELSE [status |-> "Ok", read |-> {Locate(fs, full_path)}]

list_directory(fs, path) ==
    LET full_path == PathJoin(Base, path)
    IN  IF ~exists(fs, full_path) THEN Failed("NotFound")
        ELSE IF ~is_dir(fs, full_path) THEN Failed("InvalidPath")
        ELSE [status |-> "Ok", read |-> {Locate(fs, full_path)}]

fs_read(fs, p) ==
    IF is_file(fs, p)
    THEN [status |-> "Ok", read |-> {Locate(fs, p)}]
    ELSE Failed("Io")

serve_path(fs, path) ==
    IF is_markdown(path)
    THEN read_file(fs, strip_prefix(path, Base))
    ELSE fs_read(fs, path)

Served(kind, r) ==
    [status |-> r.status,
     served |-> IF r.status = "Ok" THEN kind ELSE "none",
     read   |-> r.read]

handle_path(fs, path) ==
    LET normalized == normalize_path(path)
        requested  == PathJoin(Base, normalized)
        index_md   == Append(requested, "index.md")
        readme_md  == Append(requested, "README.md")
        md_variant == with_extension(requested)
    IN  IF exists(fs, requested) /\ is_dir(fs, requested)
        THEN IF is_file(fs, index_md)
             THEN Served("index.md",
                         read_file(fs, FormatChild(normalized, "index.md")))
             ELSE IF is_file(fs, readme_md)
             THEN Served("README.md",
                         read_file(fs, FormatChild(normalized, "README.md")))
             ELSE Served("listing", list_directory(fs, normalized))
        ELSE IF exists(fs, requested) /\ is_file(fs, requested)
        THEN Served("file", serve_path(fs, requested))
        ELSE IF is_file(fs, md_variant)
        THEN Served("md_variant",
                    read_file(fs, strip_prefix(md_variant, Base)))
        ELSE Served("none", Failed("NotFound"))

handle_raw(fs, path) ==
    LET normalized == normalize_path(path)
        requested  == PathJoin(Base, normalized)
        md_variant == with_extension(requested)
    IN  IF ~exists(fs, requested)
        THEN IF is_file(fs, md_variant)
             THEN Served("md_variant",
                         read_file(fs, strip_prefix(md_variant, Base)))
             ELSE Served("404 page", [status |-> "Ok", read |-> {}])
        ELSE Served("file", read_file(fs, strip_prefix(requested, Base)))

handle_static(fs, path) ==
    LET normalized == normalize_path(path)
        requested  == PathJoin(StaticDir, normalized)
    IN  IF ~exists(fs, requested)
        THEN Served("none", Failed("NotFound"))
        ELSE Served("file", fs_read(fs, requested))

\* ------------------------------------------------------------ handle_search
\* A query is a sequence of runs [c |-> character, n |-> repetitions]; the
\* raw query string is one key=value pair whose value may hold "%20".
MaxRuns == 2

QueryLimit == 1000

RunLens == {1, 499, 500, 999, 1000}

RunChars == {"a", EAcute, "%20"}

Runs == [c : RunChars, n : RunLens]

RawQueries == [key   : {"q", "x"},
               value : UNION {[1..n -> Runs] : n \in 0..MaxRuns}]

RunWidth(c) == IF c = "%20" THEN 3 ELSE Width(c)

RECURSIVE RunBytes(_)
RunBytes(q) ==
    IF q = <<>> THEN 0
    ELSE RunWidth(Head(q).c) * Head(q).n + RunBytes(Tail(q))

\* value.replace("%20", " ")
UrlDecode(value) ==
    [k \in 1..Len(value) |->
        IF value[k].c = "%20" THEN [c |-> " ", n |-> value[k].n]
        ELSE value[k]]

parse_query_param(raw, param) ==
    IF raw.key = param THEN UrlDecode(raw.value) ELSE <<>>

RECURSIVE RunsCharBoundary(_, _)
RunsCharBoundary(q, b) ==
    IF b = 0 THEN TRUE
    ELSE IF q = <<>> THEN FALSE
    ELSE LET w == RunWidth(Head(q).c) * Head(q).n
         IN  IF b >= w THEN RunsCharBoundary(Tail(q), b - w)
             ELSE b % RunWidth(Head(q).c) = 0

\* &query[..b], b a character boundary
RECURSIVE RunsPrefix(_, _)
RunsPrefix(q, b) ==
    IF b = 0 \/ q = <<>> THEN <<>>
    ELSE LET w == RunWidth(Head(q).c) * Head(q).n
         IN  IF b >= w THEN <<Head(q)>> \o RunsPrefix(Tail(q), b - w)
             ELSE <<[c |-> Head(q).c, n |-> b \div RunWidth(Head(q).c)]>>

handle_search(raw) ==
    LET query == parse_query_param(raw, "q")
    IN  IF RunBytes(query) > QueryLimit
        THEN [out |-> [query |-> RunsPrefix(query, QueryLimit)],
              ok  |-> RunsCharBoundary(query, QueryLimit)]
        ELSE [out |-> [query |-> query], ok |-> TRUE]

CallHandlePath ==
    /\ Calling("handle_path")
    /\ Apply([out |-> handle_path(arg.fs, arg.path), ok |-> TRUE])
    /\ UNCHANGED <<call, arg, svcVars, renderVars>>

CallHandleRaw ==
    /\ Calling("handle_raw")
    /\ Apply([out |-> handle_raw(arg.fs, arg.path), ok |-> TRUE])
    /\ UNCHANGED <<call, arg, svcVars, renderVars>>

CallHandleStatic ==
    /\ Calling("handle_static")
    /\ Apply([out |-> handle_static(arg.fs, arg.path), ok |-> TRUE])
    /\ UNCHANGED <<call, arg, svcVars, renderVars>>

CallHandleSearch ==
    /\ Calling("handle_search")
    /\ Apply(handle_search(arg))
    /\ UNCHANGED <<call, arg, svcVars, renderVars>>

\* ------------------------------------------------------------ search_service.rs
\* A directory listing is the sequence of its entries in read_dir order.  A
\* result carries its path and relevance; title and excerpt are text made
\* from the file's content alone and feed neither the match nor the order.
MaxEntries == 2

MaxSubEntries == 1

Contents == {<<"b", "a", "t">>, <<"#", " ", "B", "a", "t", NL, "a", "b">>, <<"a", "b", NL, "b", "a", "t", " ", "t", "a", "b">>, <<"t", "a", "b", " ", "-", "-", "-">>}

Queries == {<<>>, <<" ">>, <<"b", "a", "t">>, <<"B", "A", "T">>, <<"t", "a", "b", " ", "b", "a", "t">>, <<"t", "a", "b", " ", "-", "-", "-">>}

FileEntry(name, readable, text) ==
    [name |-> name, is_dir |-> FALSE, readable |-> readable,
     content |-> text, entries |-> <<>>]

DirEntry(name, readable, entries) ==
    [name |-> name, is_dir |-> TRUE, readable |-> readable,
     content |-> <<>>, entries |-> entries]

FileEntries ==
    {FileEntry(n, TRUE, c) : n \in {"a.md", "b.md"}, c \in Contents}
        \cup {FileEntry(n, FALSE, <<>>) : n \in {"a.md", "b.md"}}
        \cup {FileEntry("c.txt", TRUE, <<"b", "a", "t">>)}

DistinctNames(es) ==
    \A p, q \in 1..Len(es) : p # q => es[p].name # es[q].name

Listings(E, n) ==
    {es \in UNION {[1..m -> E] : m \in 0..n} : DistinctNames(es)}

SubFileEntries == {e \in FileEntries : e.name = "a.md"}

DirEntries ==
    {DirEntry("d", TRUE, es) : es \in Listings(SubFileEntries, MaxSubEntries)}
        \cup {DirEntry("d", FALSE, <<>>)}

SearchArgs ==
    [entries : Listings(FileEntries \cup DirEntries, MaxEntries),
     query   : Queries]

\* str::contains
StrContains(s, pat) ==
    \E k \in 0..(Len(s) - Len(pat)) : SubSeq(s, k + 1, k + Len(pat)) = pat

\* str::find: the offset of the first occurrence
StrFind(s, pat) ==
    CHOOSE k \in 0..Len(s) :
        /\ k + Len(pat) <= Len(s)
        /\ SubSeq(s, k + 1, k + Len(pat)) = pat
        /\ \A j \in 0..(k - 1) : SubSeq(s, j + 1, j + Len(pat)) # pat

\* str::lines
RECURSIVE StrLines(_)
StrLines(s) ==
    IF s = <<>> THEN <<>>
    ELSE IF \E k \in 1..Len(s) : s[k] = NL
    THEN LET k == CHOOSE k \in 1..Len(s) :
                      s[k] = NL /\ \A j \in 1..(k - 1) : s[j] # NL
         IN  <<SubSeq(s, 1, k - 1)>> \o StrLines(SubSeq(s, k + 1, Len(s)))
    ELSE <<s>>

\* str::split_whitespace
RECURSIVE SplitWhitespace(_)
SplitWhitespace(s) ==
    LET t == TrimStart(s)
    IN  IF t = <<>> THEN <<>>
        ELSE IF \E k \in 1..Len(t) : IsWs(t[k])
        THEN LET k == CHOOSE k \in 1..Len(t) :
                          IsWs(t[k]) /\ \A j \in 1..(k - 1) : ~IsWs(t[j])
             IN  <<SubSeq(t, 1, k - 1)>>
                     \o SplitWhitespace(SubSeq(t, k + 1, Len(t)))
        ELSE <<t>>

RECURSIVE SeqSum(_)
SeqSum(s) == IF s = <<>> THEN 0 ELSE Head(s) + SeqSum(Tail(s))

SumOver(s, f(_)) == SeqSum([k \in 1..Len(s) |-> f(s[k])])

calculate_relevance(text, query) ==
    LET content_lower == ToLower(text)
        query_lower   == ToLower(query)
        words         == SplitWhitespace(query_lower)
        lines         == StrLines(text)
        exact == IF StrContains(content_lower, query_lower) THEN 20 ELSE 0
        InContent(word) ==
            IF ByteLen(word) > 2 /\ StrContains(content_lower, word)
            THEN 3 ELSE 0
        InFirstLine(word) ==
            IF ByteLen(word) > 2 /\ StrContains(ToLower(lines[1]), word)
            THEN 5 ELSE 0
        first == IF lines = <<>> THEN 0
                 ELSE (IF StrContains(ToLower(lines[1]), query_lower)
                       THEN 15 ELSE 0)
                      + SumOver(words, InFirstLine)
        frontmatter ==
            IF StrContains(text, <<"-", "-", "-">>)
            THEN SubSeq(text, 1, StrFind(text, <<"-", "-", "-">>))
            ELSE <<>>
        front == IF /\ StrContains(text, <<"-", "-", "-">>)
                    /\ StrContains(ToLower(frontmatter), query_lower)
                 THEN 10 ELSE 0
        InHeading(line) ==
            IF StartsWith(line, <<"#">>)
               /\ StrContains(ToLower(line), query_lower)
            THEN 8 ELSE 0
    IN  exact + SumOver(words, InContent) + first + front
            + SumOver(lines, InHeading)

EndsWithMd(name) == name \in {"a.md", "b.md"}

AbortOnUnreadable(results) == [ok |-> FALSE, results |-> results]

\* Err(e) => warn!(...): the loop goes on
SkipUnreadable(results) == [ok |-> TRUE, results |-> results]

\* the for loop of search_directory over one listing, from entry k
RECURSIVE SearchEntries(_, _, _, _, _)
SearchEntries(current_path, entries, k, query, results) ==
    IF k > Len(entries) THEN [ok |-> TRUE, results |-> results]
    ELSE LET entry      == entries[k]
             entry_path == Append(current_path, entry.name)
             step ==
                 IF entry.is_dir
                 THEN IF entry.readable
                      THEN SearchEntries(entry_path, entry.entries, 1,
                                         query, results)
                      ELSE [ok |-> FALSE, results |-> results]
                 ELSE IF EndsWithMd(entry.name)
                 THEN IF entry.readable
                      THEN IF StrContains(ToLower(entry.content),
                                          ToLower(query))
                           THEN [ok |-> TRUE,
                                 results |-> Append(results,
                                     [path |-> entry_path,
                                      relevance |->
                                          calculate_relevance(entry.content,
                                                              query)])]
                           ELSE [ok |-> TRUE, results |-> results]
                      ELSE SkipUnreadable(results)
                 ELSE [ok |-> TRUE, results |-> results]
         IN  IF step.ok
             THEN SearchEntries(current_path, entries, k + 1, query,
                                step.results)
             ELSE step

search_directory(entries, query) ==
    LET r == SearchEntries(<<>>, entries, 1, query, <<>>)
    IN  [status |-> IF r.ok THEN "Ok" ELSE "Err", results |-> r.results]

ComesBeforeAscending(a, b) == a.relevance < b.relevance

\* b.relevance.partial_cmp(&a.relevance) is Less: a goes before b
ComesBefore(a, b) == a.relevance > b.relevance

\* one step of the stable sort: x goes behind everything it does not precede
RECURSIVE InsertSorted(_, _)
InsertSorted(sorted, x) ==
    IF sorted = <<>> THEN <<x>>
    ELSE IF ComesBefore(x, Head(sorted)) THEN <<x>> \o sorted
    ELSE <<Head(sorted)>> \o InsertSorted(Tail(sorted), x)

RECURSIVE sort_by(_)
sort_by(results) ==
    IF results = <<>> THEN <<>>
    ELSE InsertSorted(sort_by(SubSeq(results, 1, Len(results) - 1)),
                      results[Len(results)])

search(entries, query) ==
    IF Trim(query) = <<>>
    THEN [status |-> "Ok", results |-> <<>>]
    ELSE LET r == search_directory(entries, query)
         IN  IF r.status = "Ok"
             THEN [status |-> "Ok", results |-> sort_by(r.results)]
             ELSE [status |-> "Err", results |-> <<>>]

CallSearch ==
    /\ Calling("search")
    /\ Apply([out |-> search(arg.entries, arg.query), ok |-> TRUE])
    /\ UNCHANGED <<call, arg, svcVars, renderVars>>

CallSearchDirectory ==
    /\ Calling("search_directory")
    /\ Apply([out |-> search_directory(arg.entries, arg.query), ok |-> TRUE])
    /\ UNCHANGED <<call, arg, svcVars, renderVars>>

InitFn ==
    /\ SvcIdle
    /\ RenderIdle
    /\ \/ call = "process_inline_markdown" /\ arg \in InlineArgs
       \/ call = "replace_emphasis" /\ arg \in EmphasisArgs
       \/ call = "process_links" /\ arg \in LinkArgs
       \/ call = "render_table" /\ arg \in TableArgs
       \/ call = "split_front_matter" /\ arg \in RawArgs
       \/ call = "handle_path" /\ arg \in HandlerArgs
       \/ call = "handle_raw" /\ arg \in HandlerArgs
       \/ call = "handle_static" /\ arg \in HandlerArgs
       \/ call = "handle_search" /\ arg \in RawQueries
       \/ call = "search" /\ arg \in SearchArgs
       \/ call = "search_directory" /\ arg \in SearchArgs
    /\ ret = <<>>
    /\ fpc = "call"

NextFn ==
    \/ CallInline
    \/ CallEmphasis
    \/ CallLinks
    \/ CallTable
    \/ CallSplitFrontMatter
    \/ CallHandlePath
    \/ CallHandleRaw
    \/ CallHandleStatic
    \/ CallHandleSearch
    \/ CallSearch
    \/ CallSearchDirectory

SpecFn == InitFn /\ [][NextFn]_vars

\* ============================================================ claims
Last(s) == s[Len(s)]

HtmlFinished == pc \in {"toc", "title", "done"}

HeadingToks == {k \in 1..Len(html) : html[k].t = "h"}

\* ------------------------------------------------------------ C1
\* C1: render_with_toc returns Ok(MarkdownResult) for every input: no index
\* or slice it takes is out of bounds (the run never panics), it never
\* returns Err, and when it is done the result is Ok.
C1_AlwaysOk ==
    /\ pc # "panic"
    /\ result # "Err"
    /\ pc = "done" => result = "Ok"

\* a malformed document (a list item nested at once at depth 3, a paragraph
\* with a multi-byte character between markers, then a fence that is never
\* closed) has been rendered to the end
C1_Witness ==
    /\ pc = "done"
    /\ result = "Ok"
    /\ \E k \in 1..Len(html) : html[k].t = "li" /\ content[html[k].ln + 1] = LineOl2
    /\ \E k \in 1..Len(html) : html[k].t = "p" /\ content[html[k].ln + 1] = LinePara
    /\ in_code_block

\* ------------------------------------------------------------ C2
\* C2: the id attributes of the headings in html are pairwise distinct.
C2_HeadingIdsDistinct ==
    \A x, y \in HeadingToks : x # y => html[x].a # html[y].a

\* ------------------------------------------------------------ C3
\* the headings before the k-th whose base slug is that of the k-th
EarlierSameBase(k) ==
    {j \in 1..(k - 1) :
        BaseId(headings[j].text, headings[j].level)
            = BaseId(headings[k].text, headings[k].level)}

\* C3: among the headings with the same base slug the first keeps the base
\* slug and the k-th gets base-(k-1), and no id is assigned to two headings
\* of the document.
C3_RenderIdsUnique ==
    /\ \A k \in 1..Len(headings) :
          headings[k].id =
              LET base == BaseId(headings[k].text, headings[k].level)
                  n == Cardinality(EarlierSameBase(k))
              IN IF n = 0 THEN base ELSE base \o <<"-">> \o FormatNat(n)
    /\ \A j, k \in 1..Len(headings) : j # k => headings[j].id # headings[k].id

\* ------------------------------------------------------------ C5
CountToks(toks, type) == Cardinality({q \in 1..Len(toks) : toks[q].t = type})

\* the index in toks of the n-th token of a type
NthTok(toks, type, n) ==
    CHOOSE q \in 1..Len(toks) :
        /\ toks[q].t = type
        /\ Cardinality({r \in 1..q : toks[r].t = type}) = n

\* C5: every heading's opening tag carries id="<slug>", the anchor link to
\* #<slug> is emitted immediately before that heading's closing tag, inside
\* the heading, and the i-th TOC entry links to the i-th heading's slug.
C5_HeadingAnchors ==
    rpc = "done"
        => /\ CountToks(rout, "h_open") = Len(headings)
           /\ CountToks(rout, "h_close") = Len(headings)
           /\ CountToks(rtoc, "li") = Len(headings)
           /\ \A n \in 1..Len(headings) :
                 LET o == NthTok(rout, "h_open", n)
                     c == NthTok(rout, "h_close", n)
                     slug == headings[n].id
                 IN /\ rout[o].a = slug
                    /\ o < c
                    /\ \A q \in (o + 1)..(c - 1) : rout[q].t \notin {"h_open", "h_close"}
                    /\ rout[c - 1].t = "hlink"
                    /\ rout[c - 1].a = slug
                    /\ rout[c].n = rout[o].n
                    /\ rtoc[NthTok(rtoc, "li", n)].a = slug

\* a document with two headings of the same slug and text inside the second
\* heading has been rendered
C5_Witness ==
    /\ rpc = "done"
    /\ Len(headings) >= 2
    /\ headings[2].id = <<"a", "-", "1">>
    /\ \E q \in 1..Len(rout) : rout[q].t = "hlink" /\ rout[q].a = <<"a", "-", "1">>

\* ------------------------------------------------------------ C4
\* the slug as the claim states it, with and without its last step
ClaimedSlugUntrimmed(text) ==
    [k \in 1..Len(text) |->
        IF IsAlnum(LowerChar(text[k])) THEN LowerChar(text[k]) ELSE "-"]

ClaimedSlug(text) ==
    LET u == ClaimedSlugUntrimmed(text)
    IN IF u # <<>> /\ Last(u) = "-" THEN SubSeq(u, 1, Len(u) - 1) ELSE u

\* the text of a heading line: the line without its leading '#'s, trimmed
ClaimedHeadingText(line) ==
    LET hashes == CHOOSE n \in 0..Len(line) :
                     /\ \A k \in 1..n : line[k] = "#"
                     /\ n < Len(line) => line[n + 1] # "#"
    IN Trim(SubSeq(line, hashes + 1, Len(line)))

\* C4 as stated: the id of every rendered heading (in html and in the TOC)
\* is the slug of its text with a trailing '-' trimmed.
C4_IdIsTrimmedSlug ==
    /\ \A k \in HeadingToks :
          html[k].a = ClaimedSlug(ClaimedHeadingText(content[html[k].ln + 1]))
    /\ \A k \in 1..Len(toc) :
          toc[k].t = "toc_li"
              => toc[k].a = ClaimedSlug(ClaimedHeadingText(content[toc[k].ln + 1]))

\* C4 as amended: the id of every rendered heading (in html and in the TOC)
\* is its text lowercased, with every character that is neither alphanumeric
\* nor a space mapped to '-' and every space replaced by '-'; a trailing '-'
\* is kept.
C4_IdIsUntrimmedSlug ==
    /\ \A k \in HeadingToks :
          html[k].a = ClaimedSlugUntrimmed(ClaimedHeadingText(content[html[k].ln + 1]))
    /\ \A k \in 1..Len(toc) :
          toc[k].t = "toc_li"
              => toc[k].a = ClaimedSlugUntrimmed(ClaimedHeadingText(content[toc[k].ln + 1]))

\* a heading whose slug ends in '-' has been rendered, in html and in the TOC
C4_Witness ==
    /\ pc = "done"
    /\ \E k \in HeadingToks : html[k].a # <<>> /\ Last(html[k].a) = "-"
    /\ \E k \in 1..Len(toc) : toc[k].t = "toc_li" /\ toc[k].a = <<"a", "-">>

\* ------------------------------------------------------------ C6
\* C6: when the input starts with a --- line and no later line closes it,
\* every line after the first is rendered into html (a table's separator
\* line aside, which no renderer emits).
UnclosedFrontMatter ==
    /\ content # <<>>
    /\ StartsWith(content[1], <<"-", "-", "-">>)
    /\ \A k \in 2..Len(content) : ~StartsWith(content[k], <<"-", "-", "-">>)

C6_UnclosedFrontMatterIsBody ==
    (HtmlFinished /\ UnclosedFrontMatter)
        => \A k \in 2..Len(content) :
              ~Contains(content[k], "|") => \E t \in 1..Len(html) : html[t].ln = k - 1

\* ------------------------------------------------------------ C7
\* the title as the claim states it
IsFenceAt(k) == StartsWith(content[k], <<BT, BT, BT>>)
FencesBefore(k) == Cardinality({f \in 1..(k - 1) : IsFenceAt(f)})

ClosingFrontMatterLines ==
    IF content # <<>> /\ content[1] = <<"-", "-", "-">>
    THEN {k \in 2..Len(content) : content[k] = <<"-", "-", "-">>}
    ELSE {}

FrontMatterEnd ==
    IF ClosingFrontMatterLines = {} THEN 0
    ELSE CHOOSE k \in ClosingFrontMatterLines : \A m \in ClosingFrontMatterLines : k <= m

FrontMatterTitleLines ==
    {k \in 2..(FrontMatterEnd - 1) :
        StartsWith(content[k], <<"t", "i", "t", "l", "e", ":">>) /\ TitleValue(content[k]) # <<>>}

LevelOneHeadingLines ==
    {k \in (FrontMatterEnd + 1)..Len(content) :
        /\ ~IsFenceAt(k)
        /\ FencesBefore(k) % 2 = 0
        /\ Len(content[k]) >= 1 /\ content[k][1] = "#"
        /\ Len(content[k]) >= 2 => content[k][2] # "#"
        /\ ClaimedHeadingText(content[k]) # <<>>}

MinOf(S) == CHOOSE k \in S : \A m \in S : k <= m

ClaimedTitle ==
    IF FrontMatterTitleLines # {}
    THEN SomeTitle(TitleValue(content[MinOf(FrontMatterTitleLines)]))
    ELSE IF LevelOneHeadingLines # {}
         THEN SomeTitle(ClaimedHeadingText(content[MinOf(LevelOneHeadingLines)]))
         ELSE NoneTitle

\* C7: the title is the front-matter title when there is one, otherwise the
\* text of the first level-1 heading outside code blocks, otherwise None.
C7_TitleIsFrontMatterOrFirstH1 ==
    pc = "done" => title = ClaimedTitle

\* ------------------------------------------------------------ C8
\* line k lies between an opening fence and its closing fence, and no ---
\* line precedes it outside that code block
InsideFences(k) ==
    /\ ~IsFenceAt(k)
    /\ FencesBefore(k) % 2 = 1
    /\ \E f \in (k + 1)..Len(content) : IsFenceAt(f)
    /\ \A m \in 1..(k - 1) :
          StartsWith(content[m], <<"-", "-", "-">>) => FencesBefore(m) % 2 = 1

\* C8: every line between an opening fence and its closing fence is emitted
\* once, escaped and otherwise verbatim, as a line of the code block.
C8_CodeLinesVerbatim ==
    HtmlFinished
        => \A k \in 1..Len(content) :
              InsideFences(k)
                  => \E t \in 1..Len(html) :
                        /\ html[t].ln = k - 1
                        /\ html[t].t = "code_line"
                        /\ html[t].body = escape_html(content[k])
                        /\ \A u \in 1..Len(html) : html[u].ln = k - 1 => u = t

\* ------------------------------------------------------------ C9
\* the list tags of html that are still open, innermost last; a closing tag
\* that does not close the innermost open list yields <<"unbalanced">>
RECURSIVE OpenListTags(_, _)
OpenListTags(toks, open) ==
    IF toks = <<>> THEN open
    ELSE LET t == Head(toks).t
         IN IF t \in {"ul_open", "ol_open"}
            THEN OpenListTags(Tail(toks), Append(open, IF t = "ul_open" THEN "Unordered" ELSE "Ordered"))
            ELSE IF t \in {"ul_close", "ol_close"}
                 THEN IF open # <<>> /\ Last(open) = (IF t = "ul_close" THEN "Unordered" ELSE "Ordered")
                      THEN OpenListTags(Tail(toks), SubSeq(open, 1, Len(open) - 1))
                      ELSE <<"unbalanced">>
                 ELSE OpenListTags(Tail(toks), open)

BlockToks == {"h", "p", "table_close", "pre_open", "pre_close", "code_line", "br"}

\* C9: no list is open when a heading, paragraph, table, code fence, code
\* line or <br> has just been emitted, nor when rendering has ended; the
\* lists open in html are those of the list stack, so every <ul>/<ol> is
\* closed by a closing tag of its own kind.
C9_ListsClosed ==
    /\ (html # <<>> /\ Last(html).t \in BlockToks) => list_stack = <<>>
    /\ OpenListTags(html, <<>>) = [k \in 1..Len(list_stack) |-> list_stack[k].kind]
    /\ HtmlFinished => (list_stack = <<>> /\ OpenListTags(html, <<>>) = <<>>)

\* a paragraph has just closed three nested lists
C9_Witness ==
    /\ Len(html) >= 8
    /\ Last(html).t = "p"
    /\ html[Len(html) - 1].t \in {"ul_close", "ol_close"}
    /\ html[Len(html) - 3].t \in {"ul_close", "ol_close"}
    /\ list_stack = <<>>

\* ------------------------------------------------------------ C10
\* the indent unit count as the claim states it
RECURSIVE LeadingCount(_, _)
LeadingCount(line, c) ==
    IF line # <<>> /\ Head(line) \in {" ", TAB}
    THEN (IF Head(line) = c THEN 1 ELSE 0) + LeadingCount(Tail(line), c)
    ELSE 0

IndentUnits(line) == LeadingCount(line, TAB) + (LeadingCount(line, " ") \div 4)

MarkerKind(line) ==
    IF TrimStart(line) # <<>> /\ Head(TrimStart(line)) \in Digits
    THEN "Ordered" ELSE "Unordered"

\* C10: after a list item with indent unit count n has been processed,
\* exactly n + 1 lists are open and the innermost has the kind of the marker.
C10_DepthIsIndentPlusOne ==
    (pc = "html" /\ html # <<>> /\ Last(html).t = "li")
        => /\ Len(list_stack) = IndentUnits(content[Last(html).ln + 1]) + 1
           /\ Last(list_stack).kind = MarkerKind(content[Last(html).ln + 1])

\* an ordered item at indent 2 has been processed after an unordered item
C10_Witness ==
    /\ pc = "html"
    /\ html # <<>> /\ Last(html).t = "li"
    /\ Len(list_stack) = 3
    /\ Last(list_stack).kind = "Ordered"
    /\ list_stack[1].kind = "Unordered"

\* ------------------------------------------------------------ C11
Returned(f) == fpc = "return" /\ call = f

\* the tokens of a type pushed for input line ln
TokCount(toks, type, ln) ==
    Cardinality({q \in 1..Len(toks) : toks[q].t = type /\ toks[q].ln = ln})

\* C11: a body row with fewer cells than the header row is rendered with as
\* many <td> cells as the header has cells.
C11_ShortRowsPadded ==
    Returned("render_table") =>
        \A k \in 3..Len(arg) :
            (CountChar(arg[k], "|") - 1 < CountToks(ret, "th"))
                => TokCount(ret, "td", k - 1) = CountToks(ret, "th")

\* ------------------------------------------------------------ C12
IsSpan(seg) == seg.kind # "plain"

MarkerFree(x) == \A q \in 1..Len(x) : x[q] \notin {"*", "~", BT}

\* spans of non-blank marker-free text, no two of them adjacent, around
\* non-empty marker-free text
SeparatedSpans(segs) ==
    /\ \E q \in 1..Len(segs) : IsSpan(segs[q])
    /\ \A q \in 1..Len(segs) :
          /\ MarkerFree(segs[q].x)
          /\ IF IsSpan(segs[q]) THEN Trim(segs[q].x) # <<>> ELSE segs[q].x # <<>>
    /\ \A q \in 1..(Len(segs) - 1) : ~(IsSpan(segs[q]) /\ IsSpan(segs[q + 1]))

\* a span converted once: its text inside the tags of its kind
Converted(seg) ==
    IF IsSpan(seg)
    THEN Passes[seg.kind].open_tag \o seg.x \o Passes[seg.kind].close_tag
    ELSE seg.x

\* C12: process_inline_markdown turns ***X*** into <strong><em>X</em></strong>,
\* **X** into <strong>X</strong> and *Y* into <em>Y</em>; several such spans
\* separated by marker-free text are each converted exactly once, the text
\* between them is left as it is, and the call returns.
C12_SpansConvertedOnce ==
    (call = "process_inline_markdown" /\ fpc # "call" /\ SeparatedSpans(arg.segs))
        => /\ fpc = "return"
           /\ ret = Concat([q \in 1..Len(arg.segs) |-> Converted(arg.segs[q])])

\* a bold span and an italic span around a separator have been converted
C12_Witness ==
    /\ Returned("process_inline_markdown")
    /\ Len(arg.segs) = 3
    /\ arg.segs[1].kind = "bold"
    /\ arg.segs[2] = Seg("plain", <<" ", "c", " ">>)
    /\ arg.segs[3].kind = "italic"
    /\ ret = <<"<", "s", "t", "r", "o", "n", "g", ">", "a", " ", "b", "<", "/", "s", "t", "r", "o", "n", "g", ">", " ", "c", " ", "<", "e", "m", ">", " ", EAcute, "<", "/", "e", "m", ">">>

\* ------------------------------------------------------------ C13
OpeningMarkers == {<<"*">>, <<"*", "*">>, <<"*", "*", "*">>, <<"~", "~">>, <<BT>>}

\* one opening marker, marker-free text after it, no other marker
OneUnmatchedOpening(segs) ==
    \E q \in 1..(Len(segs) - 1) :
        /\ segs[q].kind = "plain" /\ segs[q].x \in OpeningMarkers
        /\ \A r \in (1..Len(segs)) \ {q} :
              segs[r].kind = "plain" /\ MarkerFree(segs[r].x) /\ segs[r].x # <<>>

\* C13: a text whose only marker is one opening marker followed by
\* marker-free text is returned unchanged.
C13_UnmatchedOpeningLiteral ==
    (Returned("process_inline_markdown") /\ OneUnmatchedOpening(arg.segs))
        => ret = arg.text

\* ------------------------------------------------------------ C14
\* the first occurrence of the marker at or after index j, or -1
RECURSIVE NextMarker(_, _, _)
NextMarker(text, marker, j) ==
    IF j + Len(marker) > Len(text) THEN -1
    ELSE IF SubSeq(text, j + 1, j + Len(marker)) = marker THEN j
    ELSE NextMarker(text, marker, j + 1)

\* the text opens with the marker and what lies between it and the next
\* occurrence of the marker is empty or whitespace
BlankPairAtStart(text, marker) ==
    /\ StartsWith(text, marker)
    /\ NextMarker(text, marker, Len(marker)) # -1
    /\ Trim(SubSeq(text, Len(marker) + 1, NextMarker(text, marker, Len(marker)))) = <<>>

\* C14: when the content between an opening marker and the next occurrence
\* of the marker is empty or whitespace-only, no tag is produced from that
\* opening marker: it is emitted literally.
C14_BlankPairRejected ==
    (Returned("replace_emphasis") /\ BlankPairAtStart(arg.text, Passes[arg.pass].marker))
        => StartsWith(ret, Passes[arg.pass].marker)

\* ------------------------------------------------------------ C15
\* the url as the claim has it emitted
ClaimedHref(url) ==
    IF /\ EndsWith(url, <<".", "m", "d">>)
       /\ ~StartsWith(url, <<"h", "t", "t", "p", ":", "/", "/">>)
       /\ ~StartsWith(url, <<"h", "t", "t", "p", "s", ":", "/", "/">>)
    THEN SubSeq(url, 1, Len(url) - 3)
    ELSE url

\* C15: the .md suffix is stripped from the url of a link if and only if
\* the url ends with .md and is not an absolute http:// or https:// URL;
\* otherwise the href is the attribute-escaped url unchanged.
C15_MdStrippedUnlessAbsolute ==
    Returned("process_links")
        => ret = <<"<", "a", " ", "h", "r", "e", "f", "=", "\"">> \o escape_attr(ClaimedHref(arg.url)) \o <<"\"", ">", "x", "<", "/", "a", ">">>

\* ------------------------------------------------------------ C16
\* the line begins with 1 to 6 '#' characters followed by a space
ClaimedHeadingLine(line) ==
    \E n \in 1..6 :
        /\ Len(line) > n
        /\ \A k \in 1..n : line[k] = "#"
        /\ line[n + 1] = " "

\* C16: every heading element in html was rendered from a line that begins
\* with 1 to 6 '#' characters followed by a space, and its level is in 1..6.
C16_HeadingLevelsOneToSix ==
    \A t \in HeadingToks :
        /\ html[t].n \in 1..6
        /\ ClaimedHeadingLine(content[html[t].ln + 1])

\* ------------------------------------------------------------ C17
\* the trimmed line is three or more repetitions of one of - * _
IsThematicBreak(line) ==
    LET t == Trim(line)
    IN /\ Len(t) >= 3
       /\ \E c \in {"-", "*", "_"} : \A k \in 1..Len(t) : t[k] = c

\* line k is in the body: after the front matter when the document opens
\* with a closed front-matter block, and outside code blocks
InBody(k) ==
    /\ (content[1] = <<"-", "-", "-">>) => (FrontMatterEnd > 0 /\ k > FrontMatterEnd)
    /\ ~IsFenceAt(k)
    /\ FencesBefore(k) % 2 = 0

\* C17: a thematic-break line in the body is rendered as <hr>, no list is
\* open after it, and every line after it that is not itself such a line
\* (nor a table's separator line) is rendered.
C17_ThematicBreakIsHr ==
    HtmlFinished
        => \A k \in 1..Len(content) :
              (InBody(k) /\ IsThematicBreak(content[k]))
                  => /\ \E t \in 1..Len(html) : html[t].t = "hr" /\ html[t].ln = k - 1
                     /\ \A m \in (k + 1)..Len(content) :
                           (~IsThematicBreak(content[m]) /\ ~Contains(content[m], "|"))
                               => \E t \in 1..Len(html) : html[t].ln = m - 1

\* ------------------------------------------------------------ C18
IsHeadingTok(tok) == tok.t = "h"
IsTocEntry(tok) == tok.t = "toc_li"

AttrsOf(toks) == [k \in 1..Len(toks) |-> toks[k].a]

\* C18: the link targets of the TOC entries are the ids of the headings of
\* html, in the same order.
C18_TocMatchesHeadings ==
    pc \in {"title", "done"}
        => AttrsOf(SelectSeq(toc, IsTocEntry)) = AttrsOf(SelectSeq(html, IsHeadingTok))

\* ------------------------------------------------------------ C20
\* the headings of the document: the lines after the front matter and
\* outside code blocks that begin with 1 to 6 '#' and a space and have text
ClaimedHeadingLines ==
    {k \in (FrontMatterEnd + 1)..Len(content) :
        /\ ~IsFenceAt(k)
        /\ FencesBefore(k) % 2 = 0
        /\ ClaimedHeadingLine(content[k])
        /\ ClaimedHeadingText(content[k]) # <<>>}

\* C20: generate_toc returns the empty string exactly when the document
\* contains no heading.
C20_TocEmptyIffNoHeading ==
    pc \in {"title", "done"} => (toc = <<>> <=> ClaimedHeadingLines = {})


\* ------------------------------------------------------------ C19
\* C19: split_front_matter returns without panicking for every input.
C19_SplitNeverPanics ==
    call = "split_front_matter" => fpc # "panic"

\* ------------------------------------------------------------ C21
\* C21: when the document opens with a front-matter block that is closed and
\* holds no title line, the title does not come from a title line of the
\* body: it is what the heading search gives.
C21_BodyTitleLineIgnored ==
    (pc = "done" /\ FrontMatterEnd > 0 /\ FrontMatterTitleLines = {})
        => title = FirstHeadingTitle(content, 0)

\* ------------------------------------------------------------ C22
\* the tags the renderer generates inside a paragraph, heading or list item
GeneratedTags ==
    {<<"<", "e", "m", ">">>, <<"<", "/", "e", "m", ">">>, <<"<", "s", "t", "r", "o", "n", "g", ">">>, <<"<", "/", "s", "t", "r", "o", "n", "g", ">">>, <<"<", "d", "e", "l", ">">>, <<"<", "/", "d", "e", "l", ">">>,
     <<"<", "c", "o", "d", "e", ">">>, <<"<", "/", "c", "o", "d", "e", ">">>, <<"<", "a", " ", "h", "r", "e", "f", "=", "\"">>, <<"<", "/", "a", ">">>, <<"<", "i", "m", "g", " ", "s", "r", "c", "=", "\"">>}

GeneratedTagAt(body, k) ==
    \E tag \in GeneratedTags :
        k + Len(tag) - 1 <= Len(body) /\ SubSeq(body, k, k + Len(tag) - 1) = tag

\* C22: in the text of every paragraph, heading and list item of html, a '<'
\* only ever opens a tag the renderer generated.
C22_HtmlSanitized ==
    \A t \in 1..Len(html) :
        html[t].t \in {"p", "h", "li"}
            => \A k \in 1..Len(html[t].body) :
                  html[t].body[k] = "<" => GeneratedTagAt(html[t].body, k)

\* ------------------------------------------------------------ C25
\* C25: when rendering has ended, html holds as many code block closers as
\* openers.
C25_CodeBlocksClosed ==
    HtmlFinished => CountToks(html, "pre_open") = CountToks(html, "pre_close")

\* ------------------------------------------------------------ C23
\* what is left to do: the lines the loop has not passed, then the steps
\* after the loop
Rank ==
    CASE pc = "html" -> 4 + (Len(content) + 1 - i)
      [] pc = "toc" -> 3
      [] pc = "title" -> 2
      [] pc = "done" -> 1
      [] OTHER -> 0

\* the texts the line loop hands to process_inline_markdown for a line
InlineInputs(line) ==
    {line, HeadingText(line)}
        \cup (IF LineInfo(line).ok /\ LineInfo(line).is_list_item
              THEN {Trim(TrimEnd(SliceFrom(line, LineInfo(line).content_start)))}
              ELSE {})

Advances(text, next(_, _)) == \A k \in 0..(Len(text) - 1) : next(text, k) > k

DelNext(chars, k) == EmphasisNext(chars, Passes.del.marker, k)
BoldItalicNext(chars, k) == EmphasisNext(chars, Passes.bolditalic.marker, k)
BoldNext(chars, k) == EmphasisNext(chars, Passes.bold.marker, k)
ItalicNext(chars, k) == EmphasisNext(chars, Passes.italic.marker, k)

\* every iteration of every scan of process_inline_markdown(text), each
\* pass reading what the pass before it returned, moves its index forward
ScansAdvance(text) ==
    LET p == Passes
        r1 == process_images(text).out
        r2 == process_links(r1).out
        r3 == process_inline_code(r2).out
        r4 == replace_emphasis(r3, p.del.marker, p.del.open_tag, p.del.close_tag).out
        r5 == replace_emphasis(r4, p.bolditalic.marker, p.bolditalic.open_tag,
                               p.bolditalic.close_tag).out
        r6 == replace_emphasis(r5, p.bold.marker, p.bold.open_tag, p.bold.close_tag).out
    IN /\ Advances(text, ImagesNext)
       /\ Advances(r1, LinksNext)
       /\ Advances(r2, InlineCodeNext)
       /\ Advances(r3, DelNext)
       /\ Advances(r4, BoldItalicNext)
       /\ Advances(r5, BoldNext)
       /\ Advances(r6, ItalicNext)

\* C23: render_with_toc terminates: every step leaves less to do, every
\* iteration of the line loop (front-matter skip and table skip included)
\* strictly increases i, and every iteration of every inline scan over the
\* line's text strictly increases its index.
C23_EveryIterationAdvances ==
    /\ [](Rank >= 0)
    /\ [][/\ Rank' < Rank
          /\ InLoop => /\ i' > i
                       /\ \A text \in InlineInputs(Line) : ScansAdvance(text)]_vars

\* a paragraph with an emphasis span, a table and a --- line have been
\* passed and the call has returned
C23_Witness ==
    /\ pc = "done"
    /\ \E a, b, c \in 1..Len(content) :
          content[a] = LinePara /\ content[b] = LineTable /\ content[c] = LineFrontMatter

\* ------------------------------------------------------------ C24
\* f occurs in s as a contiguous run
IsInfix(f, s) == \E k \in 0..(Len(s) - Len(f)) : SubSeq(s, k + 1, k + Len(f)) = f

IsLinkSeg(seg) == seg.kind = "plain" /\ StartsWith(seg.x, <<"[">>)

\* C24: the <a> tag the links pass emitted for a link of the text is part of
\* the final output of process_inline_markdown exactly as it was emitted.
C24_EarlierOutputUntouched ==
    Returned("process_inline_markdown") =>
        \A q \in 1..Len(arg.segs) :
            (/\ IsLinkSeg(arg.segs[q])
             /\ IsInfix(process_links(arg.segs[q].x).out,
                        process_links(process_images(arg.text).out).out))
                => IsInfix(process_links(arg.segs[q].x).out, ret)

\* C26: for every request path, whatever handle_path, handle_raw and
\* handle_static read lies inside the base directory (the static directory
\* for handle_static), also when the path holds a ".." component.
C26_ReadsStayInside ==
    /\ \A h \in {"handle_path", "handle_raw"} :
           Returned(h) => \A loc \in ret.read : StartsWith(loc, Base)
    /\ Returned("handle_static")
           => \A loc \in ret.read : StartsWith(loc, StaticDir)

ClaimedResolution(fs, p) ==
    LET exact   == Base \o Components(p)
        target  == Locate(fs, exact)
        variant == Locate(fs, with_extension(exact))
        Serve(kind, loc) ==
            [status |-> "Ok", served |-> kind, read |-> {loc}]
    IN  IF target \in fs.dirs
        THEN IF Append(target, "index.md") \in fs.files
             THEN Serve("index.md", Append(target, "index.md"))
             ELSE IF Append(target, "README.md") \in fs.files
             THEN Serve("README.md", Append(target, "README.md"))
             ELSE Serve("listing", target)
        ELSE IF target \in fs.files THEN Serve("file", target)
        ELSE IF variant \in fs.files THEN Serve("md_variant", variant)
        ELSE [status |-> "NotFound", served |-> "none", read |-> {}]

\* C27: handle_path serves, for a directory base/p, its index.md when
\* present, else its README.md when present, else the listing; for a file
\* base/p that file; only when base/p does not exist base/p with extension
\* .md; and NotFound when none applies.
C27_ResolutionOrder ==
    Returned("handle_path") => ret = ClaimedResolution(arg.fs, arg.path)

\* C28: handle_search never panics while truncating, and the query it hands
\* to SearchService::search is at most 1000 bytes long.
C28_TruncatesWithoutPanic ==
    call = "handle_search"
        => /\ fpc # "panic"
           /\ fpc = "return" => RunBytes(ret.query) <= QueryLimit

FilesOf(entries) ==
    {[path |-> <<entries[k].name>>, entry |-> entries[k]] :
        k \in {j \in 1..Len(entries) : ~entries[j].is_dir}}
    \cup UNION {{[path |-> <<entries[k].name, entries[k].entries[m].name>>,
                  entry |-> entries[k].entries[m]] :
                    m \in 1..Len(entries[k].entries)} :
                k \in {j \in 1..Len(entries) : entries[j].is_dir}}

Matching(entries, query) ==
    {f \in FilesOf(entries) :
        /\ EndsWithMd(f.entry.name)
        /\ f.entry.readable
        /\ StrContains(ToLower(f.entry.content), ToLower(query))}

ResultPaths == {ret.results[k].path : k \in 1..Len(ret.results)}

\* C29: the results of search are in non-increasing order of relevance, each
\* is a .md file whose content contains the query case-insensitively, and a
\* blank query gives no result.
C29_OrderedMatchingResults ==
    Returned("search") =>
        /\ \A p, q \in 1..Len(ret.results) :
               p < q => ret.results[p].relevance >= ret.results[q].relevance
        /\ ResultPaths
               \subseteq {f.path : f \in Matching(arg.entries, arg.query)}
        /\ Trim(arg.query) = <<>> => ret.results = <<>>

C29_Witness ==
    /\ Returned("search")
    /\ Len(ret.results) = 2
    /\ ret.results[1].relevance > ret.results[2].relevance
    /\ ret.results[1].path = <<arg.entries[2].name>>
    /\ arg.query # ToLower(arg.query)

UnreadableMd(entries) ==
    \E f \in FilesOf(entries) : EndsWithMd(f.entry.name) /\ ~f.entry.readable

AllListable(entries) ==
    \A k \in 1..Len(entries) : entries[k].is_dir => entries[k].readable

\* C30: when a markdown file cannot be read, search_directory still returns
\* Ok and reports every other matching file, those after it included.
C30_UnreadableFileSkipped ==
    (/\ Returned("search_directory")
     /\ UnreadableMd(arg.entries)
     /\ AllListable(arg.entries))
        => /\ ret.status = "Ok"
           /\ ResultPaths = {f.path : f \in Matching(arg.entries, arg.query)}

C30_Witness ==
    /\ Returned("search_directory")
    /\ Len(arg.entries) = 2
    /\ EndsWithMd(arg.entries[1].name)
    /\ ~arg.entries[1].readable
    /\ ret.status = "Ok"
    /\ ResultPaths = {<<arg.entries[2].name>>}

====
